---- MODULE Spec2Model ----
(***************************************************************************)
(* Client-side synchronisation layer of the-bible-ai (web client           *)
(* src/web/src/App.jsx, mobile client src/unnamed/part_003):               *)
(*   - the session (credential pair, login / register / OAuth / refresh /  *)
(*     logout) and the authorised-call wrapper authFetch,                  *)
(*   - the PKCE handshake of the Google OAuth flow,                        *)
(*   - the chapter cache with its recency index,                           *)
(*   - the chapter reader (loadChapter and the requests it issues),        *)
(*   - the chat quota snapshot (ensureConversation / sendMessage),         *)
(*   - the account form against the server's login policy,                 *)
(*   - cache storage holding a record that does not parse,                 *)
(*   - the mobile client's start-up restore from AsyncStorage,             *)
(*   - an anonymous chat followed by a sign-in,                            *)
(*   - the bookmark and memo lists over sign-in and sign-out,              *)
(*   - the reader when a cache write throws,                               *)
(*   - the book list over changes of the version,                          *)
(*   - the mobile reader's chapter text and the chapter number it loads.   *)
(*                                                                         *)
(* Tokens are numbered: the server's n-th issued pair is access token n    *)
(* and refresh token n; 0 stands for the empty string "" of the source.    *)
(* Execution is event driven: every action below is one run-to-completion  *)
(* segment of a handler (from one await to the next) or one step of the    *)
(* server / network.                                                       *)
(***************************************************************************)
EXTENDS Integers, Sequences, FiniteSets, TLC

\* ------------------------------------------------------------------ bounds
NumCalls == 2          \* authFetch invocations that can be in flight at once
MaxTok == 2            \* token pairs the server issues in one behaviour
MaxOAuthState == 1     \* OAuth handshakes the server starts in one behaviour
NumVerifiers == 1      \* distinct PKCE verifiers the client can draw
NumDeliveries == 2     \* handleOauthUrl invocations in progress at once (mobile)
NumHotKeys == 2        \* least recently touched keys the cache is called with
NumFreshKeys == 2      \* keys never cached before that the cache is called with
NumPayloads == 1       \* revisions of a chapter's text after the cached one
MaxCacheOps == 3       \* cache operations in one behaviour
NumLoads == 2          \* loadChapter invocations in progress at once
MaxLoads == 4          \* loadChapter invocations in one behaviour
MaxTurns == 1          \* largest value of a quota counter
MaxChatResponses == 3  \* chat responses absorbed between two resets
MaxConversations == 3  \* conversations the server creates in one behaviour
MaxTranscript == 4     \* transcript length up to which a message is sent
MaxBookLoads == 4      \* runs of the loadBooks effect in one behaviour
MaxInputLen == 2       \* characters of a chapter text (mobile)
MaxCount == 10         \* largest chapter_count of a book (mobile reader)
MaxLoginFailures == 12 \* failed logins the server counts in one behaviour
MaxGuestResponses == 2 \* chat responses absorbed around one sign-in
MaxGuestFailures == 1  \* failed logins before the sign-in succeeds
ChaptersPerBook == 50  \* chapters of each book of the version

\* ---------------------------------------------------- program constants
MAX_CACHE_CHAPTERS == 200
LOGIN_BLOCK_FAILURES == 5      \* failed logins after which the server blocks
LOGIN_CAPTCHA_FAILURES == 10   \* failed logins after which it wants a captcha

\* --------------------------------------------------------------- variables
VARIABLES
  authToken,            \* useState authToken        (0 = "")
  authRefreshToken,     \* useState authRefreshToken (0 = "")
  authUserId,           \* useState authUserId       (0 = "")
  authEmail,            \* useState authEmail        (0 = "")
  oauthError,           \* useState oauthError
  lsAuth,               \* localStorage auth_token / auth_refresh_token / auth_user_id / auth_email
  lsPkce,               \* localStorage pkce_verifier:<state>
  persistPending,       \* the credential persistence effect is scheduled
  page,                 \* "loaded" or "away" (after window.location.assign)
  calls,                \* authFetch invocations, by slot
  authOp,               \* handleLogin / handleRegister / handleLogout in flight
  oauth,                \* startGoogleOauth / exchange in flight
  srvValidAccess,       \* server: access tokens it accepts
  srvValidRefresh,      \* server: refresh tokens it accepts
  srvNextTok,           \* server: number of the next pair it issues
  srvChallenge,         \* server: state -> code challenge of a started handshake
  srvNextState,         \* server: next state nonce it hands out
  exchanged,            \* history: refresh tokens a successful refresh() has exchanged
  callbacks,            \* history: states whose redirect callback looked the verifier up
  exchanges,            \* history: state -> token-exchange requests issued
  linkHandlers,         \* mobile: handleOauthUrl invocations, by slot
  cacheIndex,           \* chapter_cache_index (mobile: cacheOrder.current)
  cacheStore,           \* cache records by key (mobile: chapterCache.current)
  cacheGot,             \* what the latest getCachedChapter returned
  recency,              \* history: every key ever touched, least recent first
  lastPut,              \* history: the payload of the latest put of each key
  cacheOps,             \* history: number of CacheGet and CachePut steps
  selectedBookId,       \* useState selectedBookId
  chapter,              \* useState chapter
  chapterData,          \* useState chapterData: the chapter on display
  chapterError,         \* useState chapterError
  chapterNotice,        \* useState chapterNotice
  chapterLoading,       \* useState chapterLoading
  loads,                \* loadChapter invocations, by slot
  loadsStarted,         \* history: number of loadChapter invocations
  lastDone,             \* history: the load that handled its answer last
  conversationId,       \* useState conversationId (0 = "")
  chatMeta,             \* useState chatMeta: the quota fields it holds (none = null)
  chatLimitReached,     \* useState chatLimitReached
  chatLimitReason,      \* useState chatLimitReason
  chatLoading,          \* useState chatLoading
  chatError,            \* useState chatError
  chatOp,               \* sendMessage in flight
  srvChat,              \* server: conversations created, and those expired
  chatLog,              \* history: the responses absorbed since the last reset
  chatMessages,         \* useState chatMessages: the roles of the transcript
  bookmarks,            \* useState bookmarks: 0 = [], else the items of that user
  memos,                \* useState memos: likewise
  listsFor,             \* the authToken the list effect last ran for
  currentVersion,       \* useState versionId, as the version select sets it
  books,                \* useState books: the book ids of the list
  booksError,           \* useState booksError
  bookLoads,            \* the runs of the loadBooks effect, oldest first
  authCaptcha,          \* useState authCaptcha (0 = "")
  authError,            \* useState authError
  authLoading,          \* useState authLoading
  loginSent,            \* the request body of the latest handleLogin / handleRegister
  loginReply,           \* the answer to it, on its way to the client
  srvLogin,             \* server: failed logins in a row, and the 30 s block
  restore,              \* mobile: restoreState, the getItem it awaits
  asyncQueue,           \* mobile: AsyncStorage operations issued and not yet carried out
  chapterText,          \* mobile: useState chapter, a text, as its characters
  chapterRead           \* mobile: the client, selectedBook's chapter_count, the last loadChapter

credVars == <<authToken, authRefreshToken, authUserId, authEmail>>
storeVars == <<lsAuth, lsPkce, persistPending>>
procVars == <<page, calls, authOp, oauth, oauthError>>
srvVars == <<srvValidAccess, srvValidRefresh, srvNextTok, srvChallenge, srvNextState>>
histVars == <<exchanged, callbacks, exchanges>>
authVars == <<credVars, storeVars, procVars, srvVars, histVars>>
cacheVars == <<cacheIndex, cacheStore, cacheGot, recency, lastPut, cacheOps>>
readerVars == <<selectedBookId, chapter, chapterData, chapterError, chapterNotice,
                chapterLoading, loads, loadsStarted, lastDone>>
chatVars == <<conversationId, chatMeta, chatLimitReached, chatLimitReason, chatLoading,
              chatError, chatOp, srvChat, chatLog, chatMessages>>
formVars == <<authCaptcha, authError, authLoading, loginSent, loginReply, srvLogin>>
mobileVars == <<restore, asyncQueue, chapterText, chapterRead>>
accountVars == <<bookmarks, memos, listsFor>>
booksVars == <<currentVersion, books, booksError, bookLoads>>
uiVars == <<readerVars, chatVars, formVars, mobileVars, accountVars, booksVars>>
vars == <<authVars, linkHandlers, cacheVars, uiVars>>

\* ------------------------------------------------------------ value spaces
CallIds == 1..NumCalls
OAuthStates == 1..MaxOAuthState
BogusState == MaxOAuthState + 1     \* a state the server never handed out
Verifiers == 1..NumVerifiers

\* The credential pair held in React state.
Cred ==
  [token |-> authToken, refresh |-> authRefreshToken,
   user |-> authUserId, email |-> authEmail]

NoCred == [token |-> 0, refresh |-> 0, user |-> 0, email |-> 0]

\* Body of a successful login / register / refresh / exchange response
\* carrying the server's n-th pair.
ResponseData(n) ==
  [access_token |-> n, refresh_token |-> n, user_id |-> 1, email |-> 1]

SignedIn == authToken # 0

IdleCall ==
  [pc |-> "idle", kind |-> "none", stage |-> 0, capTok |-> 0, capRef |-> 0,
   tok |-> 0, status |-> "none", res |-> "none", newTok |-> 0,
   sends |-> 0, refreshes |-> 0, result |-> "none"]

IdleOp == [kind |-> "none", pc |-> "idle", bearer |-> 0, status |-> "none", newTok |-> 0]

IdleOauth ==
  [pc |-> "idle", verifier |-> 0, challenge |-> 0, code |-> 0, state |-> 0,
   status |-> "none", newTok |-> 0]

IdleLink ==
  [pc |-> "idle", code |-> 0, state |-> 0, verifier |-> 0, status |-> "none", newTok |-> 0]

\* ------------------------------------------------- pure parts of the code

\* buildCodeChallenge: the S256 challenge of a verifier (one-way, injective).
buildCodeChallenge(verifier) == 100 + verifier

\* authFetch with the retry also refreshing on 401 (a retry loop).
authFetchNextLoop(attempt, status, capRef) ==
  IF status = "401" /\ capRef # 0 THEN "refresh" ELSE "return"

\* authFetch, after a response: return it, or refresh and retry.
\* attempt 1 is the first request, attempt 2 the retry.
authFetchNext(attempt, status, capRef) ==
  IF attempt = 1 /\ status = "401" /\ capRef # 0 THEN "refresh" ELSE "return"

\* authFetch, after refreshAccessToken() returned newToken (0 = null).
authFetchAfterRefresh(newToken) ==
  IF newToken = 0 THEN "return" ELSE "retry"

\* refreshAccessToken, success branch: the state it sets.
RefreshSuccessState(data, cur) ==
  [token |-> data.access_token, refresh |-> data.refresh_token,
   user |-> IF data.user_id # 0 THEN data.user_id ELSE cur.user,
   email |-> IF data.email # 0 THEN data.email ELSE cur.email]

\* refreshAccessToken whose catch branch drops the tokens only.
RefreshFailureStateTokensOnly(cur) ==
  [token |-> 0, refresh |-> 0, user |-> cur.user, email |-> cur.email]

\* refreshAccessToken, catch branch: the state it sets.
RefreshFailureState(cur) == NoCred

\* handleLogin / handleRegister / exchange, success branch.
LoginSuccessState(data, cur) ==
  [token |-> data.access_token, refresh |-> data.refresh_token,
   user |-> data.user_id,
   email |-> IF data.email # 0 THEN data.email ELSE cur.email]

\* handleLogout that clears the access token and the user id only.
LogoutStateKeepRefresh(cur) ==
  [token |-> 0, refresh |-> cur.refresh, user |-> 0, email |-> cur.email]

\* handleLogout (web), after the logout request resolved.
LogoutState(cur) ==
  [token |-> 0, refresh |-> 0, user |-> 0, email |-> cur.email]

\* The four setAuth* calls of one handler segment, and the scheduling of the
\* persistence effect when a dependency changed.
SetCred(new) ==
  /\ authToken' = new.token
  /\ authRefreshToken' = new.refresh
  /\ authUserId' = new.user
  /\ authEmail' = new.email
  /\ persistPending' = (new # Cred)

\* Client handlers run only on a loaded page, after pending effects are flushed.
ClientReady == page = "loaded" /\ ~persistPending

\* ------------------------------------------------------------ authFetch

\* A handler calls authFetch: the closure's authToken / authRefreshToken are
\* those of the current render.  Kind "mutate" is toggleBookmark / saveMemo /
\* deleteMemo, which return early without a token and reload the list after
\* the mutation; kind "single" is a handler making one authFetch (the list and
\* settings loaders when signed in, the chat handlers in any session).
\* Slots are interchangeable: the lowest idle one is taken.
StartCall(c, kind) ==
  /\ ClientReady
  /\ calls[c].pc = "idle"
  /\ \A d \in DOMAIN calls : d < c => calls[d].pc # "idle"
  /\ kind = "mutate" => authToken # 0
  /\ calls' = [calls EXCEPT ![c] =
       [IdleCall EXCEPT !.pc = "req1", !.kind = kind, !.stage = 1,
                       !.capTok = authToken, !.capRef = authRefreshToken,
                       !.tok = authToken, !.sends = 1]]
  /\ UNCHANGED <<credVars, storeVars, page, authOp, oauth, oauthError, srvVars, histVars, linkHandlers, cacheVars, uiVars>>

\* Status the server gives a request carrying access token tok.
ResourceStatus(tok) ==
  IF tok = 0 THEN {"200", "401"}
  ELSE IF tok \in srvValidAccess THEN {"200"} ELSE {"401"}

\* The server answers the request of call c, or the transport fails.
ServeRequest(c) ==
  /\ calls[c].pc \in {"req1", "req2"}
  /\ \E st \in ResourceStatus(calls[c].tok) \cup {"500", "neterr"} :
       calls' = [calls EXCEPT ![c].status = st,
                              ![c].pc = IF calls[c].pc = "req1" THEN "resp1" ELSE "resp2"]
  /\ UNCHANGED <<credVars, storeVars, page, authOp, oauth, oauthError, srvVars, histVars, linkHandlers, cacheVars, uiVars>>

\* authFetch returns (result is the response's status) or throws (result
\* "threw") to its handler.  toggleBookmark / saveMemo / deleteMemo, after an
\* ok response to the mutation, go on to refreshBookmarks / refreshMemos: a
\* second authFetch of the same closure.  Every other handler ends; the slot
\* keeps the result of its last call and how often it sent and refreshed.
Returned(call, result) ==
  IF call.kind = "mutate" /\ call.stage = 1 /\ result = "200" /\ call.capTok # 0
  THEN [IdleCall EXCEPT !.pc = "req1", !.kind = "mutate", !.stage = 2,
                        !.capTok = call.capTok, !.capRef = call.capRef,
                        !.tok = call.capTok, !.sends = 1]
  ELSE [IdleCall EXCEPT !.result = result, !.sends = call.sends,
                        !.refreshes = call.refreshes]

\* The signed-in user's bookmarks or memos as the list endpoints return them.
UserItems == 1

\* A list handler that drops a response when the session has gone.
listAfterGuarded(which, call, result, cur) ==
  IF authToken = 0 THEN cur
  ELSE IF result = "200"
          /\ \/ call.kind = which
             \/ which = "bookmarks" /\ call.kind = "mutate" /\ call.stage = 2
       THEN UserItems ELSE cur

\* loadBookmarks / loadMemos / refreshBookmarks after `await authFetch`:
\* `if (!res.ok) throw`, else setBookmarks(data.items || []) (setMemos for
\* the memo list); the catch sets the error text only.  Kind "mutate" is
\* taken to be toggleBookmark, whose second call is refreshBookmarks.
listAfter(which, call, result, cur) ==
  IF result = "200"
     /\ \/ call.kind = which
        \/ which = "bookmarks" /\ call.kind = "mutate" /\ call.stage = 2
  THEN UserItems ELSE cur

\* authFetch hands result to its handler, which runs to its end or to its
\* next authFetch.
Return(c, result) ==
  /\ calls' = [calls EXCEPT ![c] = Returned(calls[c], result)]
  /\ bookmarks' = listAfter("bookmarks", calls[c], result, bookmarks)
  /\ memos' = listAfter("memos", calls[c], result, memos)

\* authFetch resumes after `await fetch(...)` of the first request or of the
\* retry: it throws on a transport error, returns the response, or calls
\* refreshAccessToken(), which posts the closure's refresh token.
ClientResponse(c) ==
  /\ ~persistPending
  /\ calls[c].pc \in {"resp1", "resp2"}
  /\ LET attempt == IF calls[c].pc = "resp1" THEN 1 ELSE 2
         st == calls[c].status
     IN  IF st = "neterr"
         THEN Return(c, "threw")
         ELSE IF authFetchNext(attempt, st, calls[c].capRef) = "refresh" /\ calls[c].capRef # 0
         THEN /\ calls' = [calls EXCEPT ![c].pc = "refreshReq", ![c].tok = 0, ![c].res = st,
                                        ![c].status = "none",
                                        ![c].refreshes = calls[c].refreshes + 1]
              /\ UNCHANGED <<bookmarks, memos>>
         ELSE Return(c, st)
  /\ UNCHANGED <<credVars, storeVars, page, authOp, oauth, oauthError, srvVars, histVars, linkHandlers, cacheVars, readerVars, chatVars, formVars, mobileVars, listsFor,
                 booksVars>>

\* POST /v1/auth/refresh at the server: a valid refresh token is revoked and a
\* new pair issued; anything else fails.
ServeRefresh(c) ==
  /\ calls[c].pc = "refreshReq"
  /\ \/ /\ calls[c].capRef \in srvValidRefresh
        /\ srvNextTok <= MaxTok
        /\ srvValidRefresh' = (srvValidRefresh \ {calls[c].capRef}) \cup {srvNextTok}
        /\ srvValidAccess' = srvValidAccess \cup {srvNextTok}
        /\ srvNextTok' = srvNextTok + 1
        /\ calls' = [calls EXCEPT ![c].pc = "refreshResp", ![c].status = "200",
                                  ![c].newTok = srvNextTok]
        /\ UNCHANGED <<srvChallenge, srvNextState>>
     \/ /\ \E st \in (IF calls[c].capRef \in srvValidRefresh THEN {} ELSE {"401"})
                      \cup {"500", "neterr"} :
             calls' = [calls EXCEPT ![c].pc = "refreshResp", ![c].status = st]
        /\ UNCHANGED srvVars
  /\ UNCHANGED <<credVars, storeVars, page, authOp, oauth, oauthError, histVars, linkHandlers, cacheVars, uiVars>>

\* refreshAccessToken resumes after its fetch, and authFetch after it.
ClientRefreshResponse(c) ==
  /\ ~persistPending
  /\ calls[c].pc = "refreshResp"
  /\ IF calls[c].status = "200"
     THEN LET data == ResponseData(calls[c].newTok)
              newToken == data.access_token
          IN  /\ SetCred(RefreshSuccessState(data, Cred))
              /\ exchanged' = exchanged \cup {calls[c].capRef}
              /\ IF authFetchAfterRefresh(newToken) = "retry"
                 THEN /\ calls' = [calls EXCEPT ![c].pc = "req2", ![c].tok = newToken,
                                                ![c].status = "none", ![c].newTok = 0,
                                                ![c].sends = calls[c].sends + 1]
                      /\ UNCHANGED <<bookmarks, memos>>
                 ELSE Return(c, calls[c].res)
     ELSE /\ SetCred(RefreshFailureState(Cred))
          /\ exchanged' = exchanged
          /\ IF authFetchAfterRefresh(0) = "retry"
             THEN /\ calls' = [calls EXCEPT ![c].pc = "req2", ![c].tok = 0,
                                            ![c].status = "none",
                                            ![c].sends = calls[c].sends + 1]
                  /\ UNCHANGED <<bookmarks, memos>>
             ELSE Return(c, calls[c].res)
  /\ UNCHANGED <<lsAuth, lsPkce, page, authOp, oauth, oauthError, srvVars, callbacks, exchanges, linkHandlers, cacheVars, readerVars, chatVars, formVars, mobileVars, listsFor,
                 booksVars>>

\* Least element of a non-empty set of token numbers.
Oldest(S) == CHOOSE x \in S : \A y \in S : x <= y

\* Access and refresh tokens have a fixed lifetime (JWT_ACCESS_TTL_SEC,
\* JWT_REFRESH_TTL_SEC), so they expire in the order they were issued.
ExpireAccess(a) ==
  /\ a \in srvValidAccess
  /\ a = Oldest(srvValidAccess)
  /\ srvValidAccess' = srvValidAccess \ {a}
  /\ UNCHANGED <<credVars, storeVars, procVars, srvValidRefresh, srvNextTok, srvChallenge, srvNextState, histVars, linkHandlers, cacheVars, uiVars>>

ExpireRefresh(r) ==
  /\ r \in srvValidRefresh
  /\ r = Oldest(srvValidRefresh)
  /\ srvValidRefresh' = srvValidRefresh \ {r}
  /\ UNCHANGED <<credVars, storeVars, procVars, srvValidAccess, srvNextTok, srvChallenge, srvNextState, histVars, linkHandlers, cacheVars, uiVars>>

\* ------------------------------------- login, register, logout (web client)

\* handleLogin / handleRegister up to `await fetch`.  The buttons are disabled
\* while authLoading is set or the e-mail field is empty.
StartLogin(kind) ==
  /\ ClientReady
  /\ kind \in {"login", "register"}
  /\ authOp.pc = "idle"
  /\ authEmail # 0
  /\ authOp' = [IdleOp EXCEPT !.kind = "signin", !.pc = "req"]
  /\ UNCHANGED <<credVars, storeVars, page, calls, oauth, oauthError, srvVars, histVars, linkHandlers, cacheVars, readerVars, chatVars, accountVars, booksVars>>

\* POST /v1/auth/login / register at the server: a session (token pair) is
\* issued, or the request is refused, or the transport fails.
ServeLogin ==
  /\ authOp.pc = "req"
  /\ authOp.kind = "signin"
  /\ \/ /\ srvNextTok <= MaxTok
        /\ srvValidAccess' = srvValidAccess \cup {srvNextTok}
        /\ srvValidRefresh' = srvValidRefresh \cup {srvNextTok}
        /\ srvNextTok' = srvNextTok + 1
        /\ authOp' = [authOp EXCEPT !.pc = "resp", !.status = "200", !.newTok = srvNextTok]
        /\ UNCHANGED <<srvChallenge, srvNextState>>
     \/ /\ \E st \in {"401", "neterr"} :
             authOp' = [authOp EXCEPT !.pc = "resp", !.status = st]
        /\ UNCHANGED srvVars
  /\ UNCHANGED <<credVars, storeVars, page, calls, oauth, oauthError, histVars, linkHandlers, cacheVars, readerVars, chatVars, accountVars, booksVars>>

\* handleLogin / handleRegister after the response.
LoginDone ==
  /\ ~persistPending
  /\ authOp.pc = "resp"
  /\ authOp.kind = "signin"
  /\ IF authOp.status = "200"
     THEN SetCred(LoginSuccessState(ResponseData(authOp.newTok), Cred))
     ELSE SetCred(Cred)
  /\ authOp' = IdleOp
  /\ UNCHANGED <<lsAuth, lsPkce, page, calls, oauth, oauthError, srvVars, histVars, linkHandlers, cacheVars, readerVars, chatVars, accountVars, booksVars>>

\* handleLogout up to `await fetch`; without a refresh token no request is
\* made and the state is cleared at once.  The button shows only when signed in.
StartLogout ==
  /\ ClientReady
  /\ authOp.pc = "idle"
  /\ authToken # 0
  /\ IF authRefreshToken # 0
     THEN /\ authOp' = [IdleOp EXCEPT !.kind = "logout", !.pc = "req",
                                     !.bearer = authRefreshToken]
          /\ UNCHANGED <<credVars, persistPending, bookmarks, memos>>
     ELSE /\ SetCred(LogoutState(Cred))
          /\ authOp' = IdleOp
          /\ bookmarks' = 0
          /\ memos' = 0
  /\ UNCHANGED <<lsAuth, lsPkce, page, calls, oauth, oauthError, srvVars, histVars, linkHandlers, cacheVars, readerVars, chatVars, formVars, mobileVars, listsFor,
                 booksVars>>

\* POST /v1/auth/logout at the server: the session of the bearer is released.
ServeLogout ==
  /\ authOp.pc = "req"
  /\ authOp.kind = "logout"
  /\ \/ /\ srvValidRefresh' = srvValidRefresh \ {authOp.bearer}
        /\ \E st \in {"200", "401"} :
             authOp' = [authOp EXCEPT !.pc = "resp", !.status = st]
        /\ UNCHANGED <<srvValidAccess, srvNextTok, srvChallenge, srvNextState>>
     \/ /\ authOp' = [authOp EXCEPT !.pc = "resp", !.status = "neterr"]
        /\ UNCHANGED srvVars
  /\ UNCHANGED <<credVars, storeVars, page, calls, oauth, oauthError, histVars, linkHandlers, cacheVars, uiVars>>

\* handleLogout after the request: the state is cleared unless fetch threw.
LogoutDone ==
  /\ ~persistPending
  /\ authOp.pc = "resp"
  /\ authOp.kind = "logout"
  /\ IF authOp.status # "neterr"
     THEN SetCred(LogoutState(Cred)) /\ bookmarks' = 0 /\ memos' = 0
     ELSE SetCred(Cred) /\ UNCHANGED <<bookmarks, memos>>
  /\ authOp' = IdleOp
  /\ UNCHANGED <<lsAuth, lsPkce, page, calls, oauth, oauthError, srvVars, histVars, linkHandlers, cacheVars, readerVars, chatVars, formVars, mobileVars, listsFor,
                 booksVars>>

\* The effect on [activeTab, versionId, authToken] with the Reader tab
\* open: without a token it empties both lists; with one it calls
\* loadBookmarks and loadMemos, two authFetch invocations of one render.
listEffect ==
  /\ page = "loaded"
  /\ listsFor # authToken
  /\ listsFor' = authToken
  /\ IF authToken = 0
     THEN /\ bookmarks' = 0
          /\ memos' = 0
          /\ UNCHANGED calls
     ELSE /\ \A c \in DOMAIN calls : calls[c].pc = "idle"
          /\ calls' = [c \in DOMAIN calls |->
               [IdleCall EXCEPT !.pc = "req1",
                               !.kind = IF c = 1 THEN "bookmarks" ELSE "memos",
                               !.stage = 1, !.capTok = authToken,
                               !.capRef = authRefreshToken, !.tok = authToken,
                               !.sends = 1]]
          /\ UNCHANGED <<bookmarks, memos>>
  /\ UNCHANGED <<credVars, storeVars, page, authOp, oauth, oauthError, srvVars, histVars,
                 linkHandlers, cacheVars, readerVars, chatVars, formVars, mobileVars,
                 booksVars>>

\* The e-mail field of the account form writes authEmail (0 clears it).
TypeEmail(e) ==
  /\ ClientReady
  /\ e # authEmail
  /\ SetCred([Cred EXCEPT !.email = e])
  /\ UNCHANGED <<lsAuth, lsPkce, procVars, srvVars, histVars, linkHandlers, cacheVars, uiVars>>

\* The credential persistence effect: each of the four keys is set when the
\* state is non-empty and removed otherwise.
PersistEffect ==
  /\ persistPending
  /\ lsAuth' = Cred
  /\ persistPending' = FALSE
  /\ UNCHANGED <<credVars, lsPkce, procVars, srvVars, histVars, linkHandlers, cacheVars, uiVars>>

\* ------------------------------------------------ Google OAuth with PKCE

\* startGoogleOauth up to the start request: a fresh verifier is drawn and its
\* challenge sent.  The button shows only when signed out and is disabled
\* while oauthLoading is set.
StartGoogleOauth ==
  /\ ClientReady
  /\ authToken = 0
  /\ oauth.pc = "idle"
  /\ \E v \in Verifiers :
       oauth' = [IdleOauth EXCEPT !.pc = "startReq", !.verifier = v,
                                 !.challenge = buildCodeChallenge(v)]
  /\ oauthError' = "none"
  /\ UNCHANGED <<credVars, storeVars, page, calls, authOp, srvVars, histVars, linkHandlers, cacheVars, uiVars>>

\* POST /v1/auth/oauth/google/start at the server: it records the challenge
\* under a fresh state nonce and returns the nonce with the authorization URL.
ServeOauthStart ==
  /\ oauth.pc = "startReq"
  /\ \/ /\ srvNextState <= MaxOAuthState
        /\ srvChallenge' = [srvChallenge EXCEPT ![srvNextState] = oauth.challenge]
        /\ srvNextState' = srvNextState + 1
        /\ oauth' = [oauth EXCEPT !.pc = "startResp", !.status = "200",
                                  !.state = srvNextState]
        /\ UNCHANGED <<srvValidAccess, srvValidRefresh, srvNextTok>>
     \/ /\ \E st \in {"500", "neterr", "200 no state", "200 no auth_url"} :
             oauth' = [oauth EXCEPT !.pc = "startResp", !.status = st]
        /\ UNCHANGED srvVars
  /\ UNCHANGED <<credVars, storeVars, page, calls, authOp, oauthError, histVars, linkHandlers, cacheVars, uiVars>>

\* A handler that sends the browser away before it stores the verifier.
startOutcomeRedirectFirst(status, state, writeOk) ==
  IF status # "200" \/ state = 0
  THEN [persist |-> FALSE, redirect |-> FALSE]
  ELSE [persist |-> writeOk, redirect |-> TRUE]

\* startGoogleOauth after the start response: a failed request and data
\* without state or auth_url throw before anything is stored; setItem comes
\* before the redirect, so when it throws (storage full or unavailable) the
\* redirect is not reached.
startOutcome(status, state, writeOk) ==
  IF status # "200" \/ state = 0
  THEN [persist |-> FALSE, redirect |-> FALSE]
  ELSE [persist |-> writeOk, redirect |-> writeOk]

\* startGoogleOauth after the start response: the verifier is stored under the
\* returned state and the browser leaves for the authorization URL, which
\* ends every handler of the page; on failure the error is shown.
OauthStartDone ==
  /\ ~persistPending
  /\ oauth.pc = "startResp"
  /\ \E writeOk \in BOOLEAN :
       LET out == startOutcome(oauth.status, oauth.state, writeOk)
       IN  /\ lsPkce' = IF out.persist THEN [lsPkce EXCEPT ![oauth.state] = oauth.verifier]
                         ELSE lsPkce
           /\ IF out.redirect
              THEN /\ page' = "away"
                   /\ calls' = [c \in DOMAIN calls |-> IdleCall]
                   /\ authOp' = IdleOp
                   /\ oauthError' = oauthError
              ELSE /\ oauthError' = "start_failed"
                   /\ UNCHANGED <<page, calls, authOp>>
  /\ oauth' = IdleOauth
  /\ UNCHANGED <<credVars, lsAuth, persistPending, srvVars, histVars, linkHandlers, cacheVars, uiVars>>

\* Query strings the page can be loaded with: code (0 absent, 1 the code the
\* provider issued, 2 any other), state (0 absent) and the error flag.  The
\* effect looks at the error flag first, so one query stands for all with it.
Queries ==
  [code : {0, 1, 2}, state : {0} \cup OAuthStates \cup {BogusState}, error : {FALSE}]
    \cup {[code |-> 0, state |-> 0, error |-> TRUE]}

\* A page load without OAuth parameters in the URL.
NoQuery == [code |-> 0, state |-> 0, error |-> FALSE]

\* The browser was sent to the authorization URL of handshake s: its verifier
\* is stored, or was until a callback consumed it.
Redirected(s) == lsPkce[s] # 0 \/ s \in callbacks

\* OAuth callback effect: what it reads under the callback's state ...
CallbackVerifier(store, state) == store[state]

\* ... and what it leaves in localStorage (removeItem).
CallbackStoreAfter(store, state) == [store EXCEPT ![state] = 0]

\* OAuth callback effect that exchanges whether or not a verifier was found.
CallbackOutcomeNoLookup(q, store) ==
  IF q.code = 0 /\ q.state = 0 /\ ~q.error THEN "no_callback"
  ELSE IF q.error THEN "canceled"
  ELSE IF q.code = 0 \/ q.state = 0 THEN "incomplete"
  ELSE "exchange"

\* OAuth callback effect: its outcome for query q.
CallbackOutcome(q, store) ==
  IF q.code = 0 /\ q.state = 0 /\ ~q.error THEN "no_callback"
  ELSE IF q.error THEN "canceled"
  ELSE IF q.code = 0 \/ q.state = 0 THEN "incomplete"
  ELSE IF CallbackVerifier(store, q.state) = 0 THEN "state_mismatch"
  ELSE "exchange"

\* The page is loaded (first visit, reload, or return from the provider) with
\* query q: React state is initialised from localStorage, the mount effects
\* run (the persistence effect rewrites what was read), and the OAuth callback
\* effect handles the query.  State nonces cannot be guessed: a callback
\* carries the state of an authorization URL the browser was sent to, or one
\* the server never handed out.
Mount(q) ==
  /\ ~persistPending
  /\ q.state \in OAuthStates => Redirected(q.state)
  /\ LET out == CallbackOutcome(q, lsPkce)
         looked == out \in {"state_mismatch", "exchange"}
     IN  /\ authToken' = lsAuth.token
         /\ authRefreshToken' = lsAuth.refresh
         /\ authUserId' = lsAuth.user
         /\ authEmail' = lsAuth.email
         /\ page' = "loaded"
         /\ calls' = [c \in DOMAIN calls |-> IdleCall]
         /\ authOp' = IdleOp
         /\ lsPkce' = IF looked THEN CallbackStoreAfter(lsPkce, q.state) ELSE lsPkce
         /\ callbacks' = IF looked THEN callbacks \cup {q.state} ELSE callbacks
         /\ IF out = "exchange"
            THEN /\ oauth' = [IdleOauth EXCEPT !.pc = "exchangeReq", !.code = q.code,
                                              !.state = q.state,
                                              !.verifier = CallbackVerifier(lsPkce, q.state)]
                 /\ exchanges' = [exchanges EXCEPT ![q.state] = @ + 1]
                 /\ oauthError' = "none"
            ELSE /\ oauth' = IdleOauth
                 /\ exchanges' = exchanges
                 /\ oauthError' = IF out = "no_callback" THEN "none" ELSE out
  /\ UNCHANGED <<lsAuth, persistPending, srvVars, exchanged, linkHandlers, cacheVars, uiVars>>

\* POST /v1/auth/oauth/google/exchange at the server: a session is issued when
\* the verifier matches the challenge recorded under the state and the code is
\* the provider's; the handshake is then spent.
ServeExchange ==
  /\ oauth.pc = "exchangeReq"
  /\ \/ /\ oauth.state \in OAuthStates
        /\ srvChallenge[oauth.state] = buildCodeChallenge(oauth.verifier)
        /\ oauth.code = 1
        /\ srvNextTok <= MaxTok
        /\ srvChallenge' = [srvChallenge EXCEPT ![oauth.state] = 0]
        /\ srvValidAccess' = srvValidAccess \cup {srvNextTok}
        /\ srvValidRefresh' = srvValidRefresh \cup {srvNextTok}
        /\ srvNextTok' = srvNextTok + 1
        /\ oauth' = [oauth EXCEPT !.pc = "exchangeResp", !.status = "200",
                                  !.newTok = srvNextTok]
        /\ UNCHANGED srvNextState
     \/ /\ \E st \in {"400", "neterr"} :
             oauth' = [oauth EXCEPT !.pc = "exchangeResp", !.status = st]
        /\ UNCHANGED srvVars
  /\ UNCHANGED <<credVars, storeVars, page, calls, authOp, oauthError, histVars, linkHandlers, cacheVars, uiVars>>

\* exchange() after the response.
ExchangeDone ==
  /\ ~persistPending
  /\ oauth.pc = "exchangeResp"
  /\ IF oauth.status = "200"
     THEN /\ SetCred(LoginSuccessState(ResponseData(oauth.newTok), Cred))
          /\ oauthError' = oauthError
     ELSE /\ SetCred(Cred)
          /\ oauthError' = "exchange_failed"
  /\ oauth' = IdleOauth
  /\ UNCHANGED <<lsAuth, lsPkce, page, calls, authOp, srvVars, histVars, linkHandlers, cacheVars, uiVars>>

\* ------------------------------------- Google OAuth on the mobile client

\* startGoogleOauth (mobile) after the start response: the verifier is stored
\* under the returned state and the authorization URL is opened in the
\* browser; the app itself stays as it is.
MobileOauthStartDone ==
  /\ oauth.pc = "startResp"
  /\ \E writeOk \in BOOLEAN :
       LET out == startOutcome(oauth.status, oauth.state, writeOk)
       IN  /\ lsPkce' = IF out.persist THEN [lsPkce EXCEPT ![oauth.state] = oauth.verifier]
                         ELSE lsPkce
           /\ oauthError' = IF out.redirect THEN oauthError ELSE "start_failed"
  /\ oauth' = IdleOauth
  /\ UNCHANGED <<credVars, lsAuth, persistPending, page, calls, authOp, srvVars, histVars, linkHandlers, cacheVars, uiVars>>

\* handleOauthUrl(url) up to `await AsyncStorage.getItem`: the link effect
\* hands it the initial URL (again whenever deviceId changes) and every URL
\* event, so one redirect URL can reach several invocations.
handleOauthUrl(h, q) ==
  /\ q # NoQuery
  /\ q.state \in OAuthStates => Redirected(q.state)
  /\ linkHandlers[h].pc = "idle"
  /\ \A g \in DOMAIN linkHandlers : g < h => linkHandlers[g].pc # "idle"
  /\ LET out == CallbackOutcome(q, [s \in DOMAIN lsPkce |-> 1])
     IN  IF out = "exchange"
         THEN /\ linkHandlers' = [linkHandlers EXCEPT ![h] =
                   [IdleLink EXCEPT !.pc = "getItem", !.code = q.code, !.state = q.state]]
              /\ oauthError' = oauthError
         ELSE /\ linkHandlers' = linkHandlers
              /\ oauthError' = out
  /\ UNCHANGED <<credVars, storeVars, page, calls, authOp, oauth, srvVars, histVars, cacheVars, uiVars>>

\* AsyncStorage serves the getItem of invocation h; the invocation resumes and
\* issues removeItem.
StorageGetItem(h) ==
  /\ linkHandlers[h].pc = "getItem"
  /\ linkHandlers' = [linkHandlers EXCEPT
       ![h].pc = "removeItem",
       ![h].verifier = CallbackVerifier(lsPkce, linkHandlers[h].state)]
  /\ UNCHANGED <<credVars, storeVars, procVars, srvVars, histVars, cacheVars, uiVars>>

\* AsyncStorage serves the removeItem of invocation h; the invocation resumes:
\* without a verifier it reports the failure, with one it posts the exchange.
StorageRemoveItem(h) ==
  /\ linkHandlers[h].pc = "removeItem"
  /\ lsPkce' = CallbackStoreAfter(lsPkce, linkHandlers[h].state)
  /\ callbacks' = callbacks \cup {linkHandlers[h].state}
  /\ IF linkHandlers[h].verifier = 0
     THEN /\ linkHandlers' = [linkHandlers EXCEPT ![h] = IdleLink]
          /\ oauthError' = "state_mismatch"
          /\ exchanges' = exchanges
     ELSE /\ linkHandlers' = [linkHandlers EXCEPT ![h].pc = "exchangeReq"]
          /\ oauthError' = oauthError
          /\ exchanges' = [exchanges EXCEPT ![linkHandlers[h].state] = @ + 1]
  /\ UNCHANGED <<credVars, lsAuth, persistPending, page, calls, authOp, oauth, srvVars, exchanged, cacheVars, uiVars>>

\* POST /v1/auth/oauth/google/exchange at the server, for invocation h.
ServeLinkExchange(h) ==
  /\ linkHandlers[h].pc = "exchangeReq"
  /\ \/ /\ linkHandlers[h].state \in OAuthStates
        /\ srvChallenge[linkHandlers[h].state] = buildCodeChallenge(linkHandlers[h].verifier)
        /\ linkHandlers[h].code = 1
        /\ srvNextTok <= MaxTok
        /\ srvChallenge' = [srvChallenge EXCEPT ![linkHandlers[h].state] = 0]
        /\ srvValidAccess' = srvValidAccess \cup {srvNextTok}
        /\ srvValidRefresh' = srvValidRefresh \cup {srvNextTok}
        /\ srvNextTok' = srvNextTok + 1
        /\ linkHandlers' = [linkHandlers EXCEPT ![h].pc = "exchangeResp", ![h].status = "200",
                                                ![h].newTok = srvNextTok]
        /\ UNCHANGED srvNextState
     \/ /\ \E st \in {"400", "neterr"} :
             linkHandlers' = [linkHandlers EXCEPT ![h].pc = "exchangeResp", ![h].status = st]
        /\ UNCHANGED srvVars
  /\ UNCHANGED <<credVars, storeVars, procVars, histVars, cacheVars, uiVars>>

\* handleOauthUrl after the exchange response.  (The persistence effects of
\* the mobile client are not part of this specification.)
LinkExchangeDone(h) ==
  /\ linkHandlers[h].pc = "exchangeResp"
  /\ LET new == IF linkHandlers[h].status = "200"
                THEN LoginSuccessState(ResponseData(linkHandlers[h].newTok), Cred)
                ELSE Cred
     IN  /\ authToken' = new.token
         /\ authRefreshToken' = new.refresh
         /\ authUserId' = new.user
         /\ authEmail' = new.email
  /\ oauthError' = IF linkHandlers[h].status = "200" THEN oauthError ELSE "exchange_failed"
  /\ linkHandlers' = [linkHandlers EXCEPT ![h] = IdleLink]
  /\ UNCHANGED <<storeVars, page, calls, authOp, oauth, srvVars, histVars, cacheVars, uiVars>>

\* ----------------------------------------------------------- chapter cache

\* cacheKey(versionId, bookId, chapter): `chapter:${versionId}:${bookId}:${chapter}`
\* (mobile: `${versionId}:${bookId}:${chapter}`).
cacheKey(version, bookId, chap) == <<"chapter", version, bookId, chap>>

\* The key of the i-th chapter of the version, counted through its books.
KeyAt(i) ==
  cacheKey("krv", ((i - 1) \div ChaptersPerBook) + 1, ((i - 1) % ChaptersPerBook) + 1)

\* Cache keys the operations are called with: the keys touched longest ago in
\* a cache left by earlier visits, and keys never cached before.
HotKeys == {KeyAt(i) : i \in 1..NumHotKeys}
FreshKeys == {KeyAt(i) : i \in (MAX_CACHE_CHAPTERS + 1)..(MAX_CACHE_CHAPTERS + NumFreshKeys)}

\* A chapter as the server sends it: its verses (the text of that chapter in
\* one of its revisions) and the hash of that content.
contentHash(verses) == <<"hash", verses>>
ChapterData(key, revision) ==
  [verses |-> <<key[3], key[4], revision>>,
   content_hash |-> contentHash(<<key[3], key[4], revision>>)]

\* Revision 0 is the text the server had at the earlier visits; the others
\* are the texts it has had since.
Revisions == 0..NumPayloads
Payloads(key) == {ChapterData(key, r) : r \in Revisions \ {0}}

\* Values of new Date().toISOString(): when the records left by earlier visits
\* were written, and when a record is written now (no code reads the stamp).
Earlier == "2026-01-01T00:00:00.000Z"
Stamps == {"2026-01-02T00:00:00.000Z"}

\* { ...payload, cached_at: new Date().toISOString() }
Record(payload, now) ==
  [verses |-> payload.verses, content_hash |-> payload.content_hash, cached_at |-> now]

\* JSON.stringify(record): the text kept in localStorage, its members in order.
Stringify(record) ==
  << <<"verses", record.verses>>,
     <<"content_hash", record.content_hash>>,
     <<"cached_at", record.cached_at>> >>

\* JSON.parse(raw) of a text written by Stringify.
Parse(raw) ==
  [verses |-> raw[1][2], content_hash |-> raw[2][2], cached_at |-> raw[3][2]]

\* A text in localStorage that JSON.parse throws on.
Corrupt == <<"{">>

\* JSON.parse(raw) returns.
Parses(raw) == raw # Corrupt

\* What getCachedChapter returns on a miss.
Null == [null |-> TRUE]

\* items.filter((item) => item !== key)
FilterKey(items, key) == SelectSeq(items, LAMBDA item : item # key)

\* An eviction loop that shifts the keys out and leaves their records.
RECURSIVE EvictLoopKeepRecord(_, _)
EvictLoopKeepRecord(items, store) ==
  IF Len(items) > MAX_CACHE_CHAPTERS
  THEN EvictLoopKeepRecord(Tail(items), store)
  ELSE [index |-> items, store |-> store]

\* An eviction loop that starts to evict when the index has reached the limit.
RECURSIVE EvictLoopAtLimit(_, _)
EvictLoopAtLimit(items, store) ==
  IF Len(items) >= MAX_CACHE_CHAPTERS
  THEN EvictLoopAtLimit(Tail(items), [k \in DOMAIN store \ {Head(items)} |-> store[k]])
  ELSE [index |-> items, store |-> store]

\* The eviction loop of touchCacheKey: while the index is over the limit its
\* first key is shifted out and the record under it removed.
RECURSIVE EvictLoop(_, _)
EvictLoop(items, store) ==
  IF Len(items) > MAX_CACHE_CHAPTERS
  THEN EvictLoop(Tail(items), [k \in DOMAIN store \ {Head(items)} |-> store[k]])
  ELSE [index |-> items, store |-> store]

\* touchCacheKey(key): the index and the records it leaves.
touchCacheKey(key, index, store) ==
  EvictLoop(Append(FilterKey(index, key), key), store)

\* getCachedChapter that returns the record without touching its key.
getCachedChapterNoTouch(key, index, store) ==
  [index |-> index, store |-> store,
   value |-> IF key \in DOMAIN store THEN Parse(store[key]) ELSE Null]

\* getCachedChapter(key): a miss changes nothing and returns null, and so
\* does a record that does not parse (the catch branch); a hit touches the
\* key and returns the parsed record.
getCachedChapter(key, index, store) ==
  IF key \notin DOMAIN store \/ ~Parses(store[key])
  THEN [index |-> index, store |-> store, value |-> Null]
  ELSE LET touched == touchCacheKey(key, index, store)
       IN  [index |-> touched.index, store |-> touched.store,
            value |-> Parse(store[key])]

\* A setCachedChapter that leaves the record of a key that has one.
setCachedChapterKeepOld(key, payload, now, index, store) ==
  touchCacheKey(key, index, [k \in DOMAIN store \cup {key} |->
                               IF k \in DOMAIN store THEN store[k]
                               ELSE Stringify(Record(payload, now))])

\* setCachedChapter(key, payload) at time now: the stamped record is written
\* as text, then the key touched.
setCachedChapter(key, payload, now, index, store) ==
  touchCacheKey(key, index, [k \in DOMAIN store \cup {key} |->
                               IF k = key THEN Stringify(Record(payload, now))
                                          ELSE store[k]])

\* History: the keys ever touched, least recently touched first.
Touched(order, key) == Append(FilterKey(order, key), key)

\* History: the payload of the latest put of each key in this behaviour.
PutOf(puts, key, payload) ==
  [k \in DOMAIN puts \cup {key} |-> IF k = key THEN payload ELSE puts[k]]

\* loadChapter looks a chapter up in the cache.
CacheGet(key) ==
  /\ cacheOps < MaxCacheOps
  /\ LET after == getCachedChapter(key, cacheIndex, cacheStore)
     IN  /\ cacheIndex' = after.index
         /\ cacheStore' = after.store
         /\ cacheGot' = after.value
  /\ recency' = IF cacheGot' # Null THEN Touched(recency, key) ELSE recency
  /\ cacheOps' = cacheOps + 1
  /\ UNCHANGED <<authVars, linkHandlers, lastPut, uiVars>>

\* Something other than the cache functions damages the text stored under
\* a key (localStorage is shared by everything on the origin).
StorageCorrupted(key) ==
  /\ key \in DOMAIN cacheStore
  /\ Parses(cacheStore[key])
  /\ cacheStore' = [cacheStore EXCEPT ![key] = Corrupt]
  /\ UNCHANGED <<authVars, linkHandlers, cacheIndex, cacheGot, recency, lastPut, cacheOps,
                 uiVars>>

\* loadChapter stores a chapter it fetched.
CachePut(key, payload, now) ==
  /\ cacheOps < MaxCacheOps
  /\ LET after == setCachedChapter(key, payload, now, cacheIndex, cacheStore)
     IN  /\ cacheIndex' = after.index
         /\ cacheStore' = after.store
  /\ recency' = Touched(recency, key)
  /\ lastPut' = PutOf(lastPut, key, payload)
  /\ cacheOps' = cacheOps + 1
  /\ UNCHANGED <<authVars, linkHandlers, cacheGot, uiVars>>

\* The cache as earlier visits left it in localStorage: empty, one short of
\* the limit, or full, its keys KeyAt(1), KeyAt(2), ... put in that order.
CacheLeft(n) ==
  /\ cacheIndex = [i \in 1..n |-> KeyAt(i)]
  /\ cacheStore = [k \in {KeyAt(i) : i \in 1..n} |->
                      Stringify(Record(ChapterData(k, 0), Earlier))]
  /\ recency = [i \in 1..n |-> KeyAt(i)]
  /\ lastPut = <<>>
  /\ cacheGot = Null
  /\ cacheOps = 0

\* ---------------------------------------------------------- chapter reader

\* The version on display (useState("krv")).
versionId == "krv"

LoadIds == 1..NumLoads

\* The chapters the reader is asked for: those of the keys in HotKeys.
Targets == {[bookId |-> k[3], chapter |-> k[4]] : k \in HotKeys}

\* loadChapter called by the "Read chapter" button: no bookId, no chapter.
NoOverride == [none |-> TRUE]

IdleLoad ==
  [pc |-> "idle", bookId |-> 0, chapter |-> 0, cached |-> Null,
   res |-> "none", data |-> Null, notices |-> 0, late |-> FALSE]

\* targetBookId / targetChapter of loadChapter(override).
Target(override, bookId, chap) ==
  IF override = NoOverride THEN [bookId |-> bookId, chapter |-> chap] ELSE override

\* A hash test that takes every cached chapter for changed.
HashChangedIfCached(cached, data) == cached # Null

\* cached?.content_hash && cached.content_hash !== data.content_hash
HashChanged(cached, data) ==
  cached # Null /\ cached.content_hash # data.content_hash

\* A write key taken from the selection at the time the response is handled.
CacheWriteKeySelected(load, bookId, chap) == cacheKey(versionId, bookId, chap)

\* The key setCachedChapter is called with when the response of a load is
\* handled: the version and the target the load computed when it started.
CacheWriteKey(load, bookId, chap) == cacheKey(versionId, load.bookId, load.chapter)

\* String(err.message || err): the error thrown for a non-OK status, or the
\* one fetch rejects with.
ErrMessage(res) ==
  IF res = "not ok" THEN "Failed to load chapter."
  ELSE IF res = "quota" THEN "The quota has been exceeded."
  ELSE "Failed to fetch"

\* A catch branch without the cache fallback.
loadChapterCatchNoFallback(cached, data, res) ==
  [chapterData |-> data, chapterError |-> ErrMessage(res)]

\* The catch branch of loadChapter: what is displayed and the message set.
loadChapterCatch(cached, data, res) ==
  IF cached # Null
  THEN [chapterData |-> cached, chapterError |-> "Showing offline cache."]
  ELSE [chapterData |-> data, chapterError |-> ErrMessage(res)]

\* loadChapter(override) up to its await fetch(...).
loadChapter(l, override) ==
  /\ loads[l].pc = "idle"
  /\ \A m \in LoadIds : m < l => loads[m].pc # "idle"
  /\ override = NoOverride => ~chapterLoading
  /\ LET target == Target(override, selectedBookId, chapter)
         key == cacheKey(versionId, target.bookId, target.chapter)
         got == getCachedChapter(key, cacheIndex, cacheStore)
     IN  /\ selectedBookId' = target.bookId
         /\ chapter' = target.chapter
         /\ cacheIndex' = got.index
         /\ cacheStore' = got.store
         /\ cacheGot' = got.value
         /\ recency' = IF key \in DOMAIN cacheStore THEN Touched(recency, key) ELSE recency
         /\ loads' = [loads EXCEPT ![l] =
                        [IdleLoad EXCEPT !.pc = "fetch", !.bookId = target.bookId,
                                         !.chapter = target.chapter, !.cached = got.value]]
  /\ chapterError' = ""
  /\ chapterNotice' = ""
  /\ chapterLoading' = TRUE
  /\ loadsStarted' = loadsStarted + 1
  /\ UNCHANGED <<authVars, linkHandlers, lastPut, cacheOps, chapterData, lastDone, chatVars, formVars,
                 mobileVars,
                 accountVars, booksVars>>

\* GET /v1/bible/{version_id}/books/{book_id}/chapters/{chapter}: the server
\* answers with the chapter in one of its revisions or with a non-OK status,
\* or the request fails in transport.
ServeChapter(l) ==
  /\ loads[l].pc = "fetch"
  /\ \E res \in {"ok", "not ok", "failed"}, r \in Revisions :
       /\ res # "ok" => r = 0
       /\ loads' = [loads EXCEPT ![l].pc = "answered", ![l].res = res,
                      ![l].data = IF res = "ok"
                                  THEN ChapterData(cacheKey(versionId, loads[l].bookId,
                                                            loads[l].chapter), r)
                                  ELSE Null]
  /\ UNCHANGED <<authVars, linkHandlers, cacheVars, selectedBookId, chapter, chapterData,
                 chapterError, chapterNotice, chapterLoading, loadsStarted, lastDone,
                 chatVars, formVars,
                 mobileVars,
                 accountVars, booksVars>>

\* loadChapter from the fetch's answer to its end (try, catch and finally).
LoadDone(l) ==
  /\ loads[l].pc = "answered"
  /\ LET load == loads[l]
         changed == load.res = "ok" /\ HashChanged(load.cached, load.data)
         late == load.bookId # selectedBookId \/ load.chapter # chapter
     IN  /\ IF load.res = "ok"
            THEN /\ chapterNotice' = IF changed THEN "Content updated; cache refreshed."
                                                ELSE chapterNotice
                 /\ chapterData' = load.data
                 /\ chapterError' = chapterError
                 /\ LET key == CacheWriteKey(load, selectedBookId, chapter)
                        after == setCachedChapter(key, load.data, CHOOSE now \in Stamps : TRUE,
                                                  cacheIndex, cacheStore)
                    IN  /\ cacheIndex' = after.index
                        /\ cacheStore' = after.store
                        /\ recency' = Touched(recency, key)
                        /\ lastPut' = PutOf(lastPut, key, load.data)
            ELSE /\ chapterData' =
                      loadChapterCatch(load.cached, chapterData, load.res).chapterData
                 /\ chapterError' =
                      loadChapterCatch(load.cached, chapterData, load.res).chapterError
                 /\ chapterNotice' = chapterNotice
                 /\ UNCHANGED <<cacheIndex, cacheStore, recency, lastPut>>
         /\ lastDone' = [load EXCEPT !.pc = "idle",
                                      !.notices = IF changed THEN 1 ELSE 0,
                                      !.late = late]
  /\ loads' = [loads EXCEPT ![l] = IdleLoad]
  /\ chapterLoading' = FALSE
  /\ UNCHANGED <<authVars, linkHandlers, cacheGot, cacheOps, selectedBookId, chapter,
                 loadsStarted, chatVars, formVars,
                 mobileVars,
                 accountVars, booksVars>>

\* setCachedChapter when a localStorage.setItem throws: the one that writes
\* the record ("record": nothing is written), or saveCacheIndex at the end of
\* touchCacheKey ("index": the record is written and the eviction loop has
\* run, the index is left as it was).
setCachedChapterThrows(at, key, payload, now, index, store) ==
  IF at = "record"
  THEN [index |-> index, store |-> store]
  ELSE [index |-> index,
        store |-> setCachedChapter(key, payload, now, index, store).store]

\* loadChapter from a successful answer to its end when the cache write
\* throws: the notice and setChapterData(data) have run, the exception
\* takes the handler into its catch branch, then finally.
LoadDoneWriteFails(l) ==
  /\ loads[l].pc = "answered"
  /\ loads[l].res = "ok"
  /\ LET load == loads[l]
         changed == HashChanged(load.cached, load.data)
         late == load.bookId # selectedBookId \/ load.chapter # chapter
         key == CacheWriteKey(load, selectedBookId, chapter)
         out == loadChapterCatch(load.cached, load.data, "quota")
     IN  /\ chapterNotice' = IF changed THEN "Content updated; cache refreshed."
                                        ELSE chapterNotice
         /\ chapterData' = out.chapterData
         /\ chapterError' = out.chapterError
         /\ \E at \in {"record", "index"} :
              LET after == setCachedChapterThrows(at, key, load.data,
                                                  CHOOSE now \in Stamps : TRUE,
                                                  cacheIndex, cacheStore)
              IN  /\ cacheIndex' = after.index
                  /\ cacheStore' = after.store
                  /\ lastPut' = IF at = "index" THEN PutOf(lastPut, key, load.data)
                                                ELSE lastPut
         /\ recency' = recency
         /\ lastDone' = [load EXCEPT !.pc = "idle", !.res = "quota",
                                      !.notices = IF changed THEN 1 ELSE 0,
                                      !.late = late]
  /\ loads' = [loads EXCEPT ![l] = IdleLoad]
  /\ chapterLoading' = FALSE
  /\ UNCHANGED <<authVars, linkHandlers, cacheGot, cacheOps, selectedBookId, chapter,
                 loadsStarted, chatVars, formVars, mobileVars, accountVars, booksVars>>

\* The chapter input: setChapter(Number(e.target.value)).
SelectChapter(c) ==
  /\ c # chapter
  /\ chapter' = c
  /\ UNCHANGED <<authVars, linkHandlers, cacheVars, selectedBookId, chapterData,
                 chapterError, chapterNotice, chapterLoading, loads, loadsStarted,
                 lastDone, chatVars, formVars,
                 mobileVars,
                 accountVars, booksVars>>

\* The reader before any chapter was asked for.
ReaderIdle ==
  /\ selectedBookId = 1
  /\ chapter = 1
  /\ chapterData = Null
  /\ chapterError = ""
  /\ chapterNotice = ""
  /\ chapterLoading = FALSE
  /\ loads = [l \in LoadIds |-> IdleLoad]
  /\ loadsStarted = 0
  /\ lastDone = IdleLoad

\* ------------------------------------------------------------- chat quota

\* The counter fields of chatMeta.
TurnFields == {"turn_limit", "turn_count", "remaining_turns", "expires_at"}
DailyFields == {"daily_turn_limit", "daily_turn_count", "daily_remaining"}
QuotaFields == TurnFields \cup DailyFields

\* What a response reports: a value for some of the fields (a field it does
\* not carry, or carries as null, is not in the domain).
Reports ==
  {[f \in fields |-> v] : fields \in {{}, TurnFields, DailyFields, QuotaFields},
                          v \in 0..MaxTurns}

\* chatMeta = null
NoMeta == <<>>

\* The body of a 429 answer: res.json() resolves or rejects, and the
\* resolved data has an error.message or not ("").
LimitBodies ==
  {[parses |-> TRUE, message |-> text] :
     text \in {"daily trial limit reached", "trial limit reached", ""}}
  \cup {[parses |-> FALSE, message |-> ""]}

NoBody == [parses |-> FALSE, message |-> ""]

IdleChat == [pc |-> "idle", status |-> "none", report |-> NoMeta, cid |-> 0, body |-> NoBody]

\* res.json().then((data) => data?.error?.message || "").catch(() => "")
limitDetail(body) == IF body.parses THEN body.message ELSE ""

\* A classification that takes every 429 with a message text for the daily
\* limit.
limitReasonAnyText(body) == IF limitDetail(body) # "" THEN "daily" ELSE "trial"

\* isDailyLimit ? "daily" : "trial"
limitReason(body) ==
  IF limitDetail(body) = "daily trial limit reached" THEN "daily" ELSE "trial"

\* A client that keeps its conversation whatever the answer is.
conversationAfterKeep(status, held) == held

\* The conversation the client holds after the answer to a message.
conversationAfter(status, held) == IF status = "410" THEN 0 ELSE held

\* The error the catch branch of sendMessage shows.
chatErrorOf(status, body) ==
  CASE status = "410" -> "Session expired."
    [] status = "429" ->
         IF limitReason(body) = "daily" THEN "Daily limit reached for today."
         ELSE "Trial limit reached."
    [] status = "500" -> "Failed to generate response."
    [] OTHER -> ""

\* A merge that takes every field from the response, reported or not.
absorbMemoryOverwrite(prev, memory) == memory

\* setChatMeta((prev) => ({ field: data.memory.field ?? prev?.field, ... }))
absorbMemory(prev, memory) ==
  [f \in DOMAIN prev \cup DOMAIN memory |->
     IF f \in DOMAIN memory THEN memory[f] ELSE prev[f]]

\* setChatMeta({ field: data.field, ... }) of ensureConversation.
absorbCreated(prev, data) == data

\* A sendMessage that does not look at chatLimitReached.
sendMessageUngated ==
  /\ chatOp.pc = "idle"
  /\ ~chatLoading
  /\ chatError' = ""
  /\ chatLoading' = TRUE
  /\ chatOp' = [IdleChat EXCEPT !.pc = IF conversationId = 0 THEN "create" ELSE "send",
                                !.cid = conversationId]
  /\ chatMessages' = Append(chatMessages, "user")
  /\ UNCHANGED <<authVars, linkHandlers, cacheVars, readerVars, formVars, mobileVars,
                 conversationId, chatMeta,
                 chatLimitReached, chatLimitReason, srvChat, chatLog,
                 accountVars, booksVars>>

\* sendMessage up to its first request: the send button is disabled while
\* chatLoading or chatLimitReached; ensureConversation posts a new
\* conversation unless there is one.
sendMessage ==
  /\ chatOp.pc = "idle"
  /\ ~chatLoading
  /\ ~chatLimitReached
  /\ chatError' = ""
  /\ chatLoading' = TRUE
  /\ chatOp' = [IdleChat EXCEPT !.pc = IF conversationId = 0 THEN "create" ELSE "send",
                                !.cid = conversationId]
  /\ chatMessages' = Append(chatMessages, "user")
  /\ UNCHANGED <<authVars, linkHandlers, cacheVars, readerVars, formVars, mobileVars,
                 conversationId, chatMeta,
                 chatLimitReached, chatLimitReason, srvChat, chatLog,
                 accountVars, booksVars>>

\* POST /v1/chat/conversations, answered (with the id of a new conversation)
\* or failed.
ServeConversation ==
  /\ chatOp.pc = "create"
  /\ \E status \in {"200", "500"}, report \in Reports :
       /\ status # "200" => report = NoMeta
       /\ srvChat' = IF status = "200" THEN [srvChat EXCEPT !.created = @ + 1] ELSE srvChat
       /\ chatOp' = [chatOp EXCEPT !.pc = "created", !.status = status, !.report = report,
                                   !.cid = IF status = "200" THEN srvChat'.created ELSE 0]
  /\ UNCHANGED <<authVars, linkHandlers, cacheVars, readerVars, formVars, mobileVars,
                 conversationId, chatMeta,
                 chatLimitReached, chatLimitReason, chatLoading, chatError, chatLog,
                 chatMessages,
                 accountVars, booksVars>>

\* ensureConversation after its request, and sendMessage on to the message
\* request (or to its catch and finally when the session was not created).
ConversationDone ==
  /\ chatOp.pc = "created"
  /\ IF chatOp.status = "200"
     THEN /\ conversationId' = chatOp.cid
          /\ chatMeta' = absorbCreated(chatMeta, chatOp.report)
          /\ chatLimitReached' = FALSE
          /\ chatLimitReason' = ""
          /\ chatLog' = Append(chatLog, [kind |-> "create", report |-> chatOp.report])
          /\ chatOp' = [IdleChat EXCEPT !.pc = "send", !.cid = chatOp.cid]
          /\ UNCHANGED <<chatLoading, chatError>>
     ELSE /\ chatLoading' = FALSE
          /\ chatError' = "Failed to create session."
          /\ chatOp' = IdleChat
          /\ UNCHANGED <<conversationId, chatMeta, chatLimitReached, chatLimitReason, chatLog>>
  /\ UNCHANGED <<authVars, linkHandlers, cacheVars, readerVars, formVars, mobileVars, srvChat,
                 chatMessages,
                 accountVars, booksVars>>

\* POST /v1/chat/conversations/{id}/messages, answered: with the reply (and
\* its memory block, if it has one), 410 (the conversation has expired, and
\* stays so), 429 (with some body) or another failure.
ServeMessage ==
  /\ chatOp.pc = "send"
  /\ \E status \in {"200", "200 no memory", "410", "429", "500"},
        report \in Reports, body \in LimitBodies :
       /\ status # "200" => report = NoMeta
       /\ status # "429" => body = NoBody
       /\ chatOp.cid \in srvChat.expired => status \in {"410", "500"}
       /\ srvChat' = IF status = "410" THEN [srvChat EXCEPT !.expired = @ \cup {chatOp.cid}]
                      ELSE srvChat
       /\ chatOp' = [chatOp EXCEPT !.pc = "sent", !.status = status, !.report = report,
                                   !.body = body]
  /\ UNCHANGED <<authVars, linkHandlers, cacheVars, readerVars, formVars, mobileVars,
                 conversationId, chatMeta,
                 chatLimitReached, chatLimitReason, chatLoading, chatError, chatLog,
                 chatMessages,
                 accountVars, booksVars>>

\* sendMessage after the message request: try, catch and finally.
MessageDone ==
  /\ chatOp.pc = "sent"
  /\ conversationId' = conversationAfter(chatOp.status, conversationId)
  /\ chatLimitReached' =
       CASE chatOp.status = "410" -> FALSE
         [] chatOp.status = "429" -> TRUE
         [] OTHER -> chatLimitReached
  /\ chatLimitReason' =
       CASE chatOp.status = "410" -> ""
         [] chatOp.status = "429" -> limitReason(chatOp.body)
         [] OTHER -> chatLimitReason
  /\ chatError' = chatErrorOf(chatOp.status, chatOp.body)
  /\ IF chatOp.status = "200"
     THEN /\ chatMeta' = absorbMemory(chatMeta, chatOp.report)
          /\ chatLog' = Append(chatLog, [kind |-> "message", report |-> chatOp.report])
     ELSE UNCHANGED <<chatMeta, chatLog>>
  /\ chatMessages' = IF chatOp.status \in {"200", "200 no memory"}
                      THEN Append(chatMessages, "assistant") ELSE chatMessages
  /\ chatLoading' = FALSE
  /\ chatOp' = IdleChat
  /\ UNCHANGED <<authVars, linkHandlers, cacheVars, readerVars, formVars, mobileVars, srvChat,
                 accountVars, booksVars>>

\* The resets: the effect that runs when authToken becomes empty, and the
\* chat storage switch when it restarts the conversation.
ChatReset(site) ==
  /\ chatMeta' = NoMeta
  /\ conversationId' = 0
  /\ chatLimitReached' = FALSE
  /\ chatLimitReason' = IF site = "sign out" THEN "" ELSE chatLimitReason
  /\ chatLog' = <<>>
  /\ chatMessages' = <<>>
  /\ UNCHANGED <<authVars, linkHandlers, cacheVars, readerVars, formVars, mobileVars,
                 chatLoading, chatError,
                 chatOp, srvChat,
                 accountVars, booksVars>>

ChatIdle ==
  /\ conversationId = 0
  /\ chatMeta = NoMeta
  /\ chatLimitReached = FALSE
  /\ chatLimitReason = ""
  /\ chatLoading = FALSE
  /\ chatError = ""
  /\ chatOp = IdleChat
  /\ srvChat = [created |-> 0, expired |-> {}]
  /\ chatLog = <<>>
  /\ chatMessages = <<>>

\* ------------------------------------------------------------- book list

\* The versions of the version select.
Versions == {"krv", "eng-web"}

\* data.items of GET /v1/bible/{version}/books: the book ids of a version.
BooksOf(v) == IF v = "krv" THEN <<1, 2>> ELSE <<2, 3>>

\* items.some((book) => book.book_id === id)
HasBook(items, id) == \E i \in DOMAIN items : items[i] = id

\* `if (!cancelled)`: the cleanup of the effect run has not been called.
applies(load) == ~load.cancelled

\* The selected book after a list was applied.  The web client decides on
\* the current selection (functional update), the mobile client on the
\* selection of the render in which the effect ran.
selectedAfter(client, atStart, prev, items) ==
  IF items = <<>> THEN prev
  ELSE IF client = "web"
       THEN IF HasBook(items, prev) THEN prev ELSE items[1]
       ELSE IF atStart = 0 \/ ~HasBook(items, atStart) THEN items[1] ELSE prev

\* One run of the loadBooks effect up to its await fetch.
NewBookLoad(client, v, bookId) ==
  [client |-> client, version |-> v, cancelled |-> FALSE, pc |-> "fetch",
   res |-> "none", items |-> <<>>, atStart |-> bookId]

\* The version select: setVersionId, then the cleanup of the running effect
\* (cancelled = true) and the next run of the effect, which clears the error
\* (the mobile one the chapter messages too) and requests the list.
SelectVersion(v) ==
  /\ bookLoads # <<>>
  /\ v # currentVersion
  /\ currentVersion' = v
  /\ LET client == bookLoads[1].client
     IN  /\ bookLoads' =
              Append([i \in DOMAIN bookLoads |-> [bookLoads[i] EXCEPT !.cancelled = TRUE]],
                     NewBookLoad(client, v, selectedBookId))
         /\ chapterError' = IF client = "mobile" THEN "" ELSE chapterError
         /\ chapterNotice' = IF client = "mobile" THEN "" ELSE chapterNotice
  /\ booksError' = ""
  /\ UNCHANGED <<authVars, linkHandlers, cacheVars, selectedBookId, chapter, chapterData,
                 chapterLoading, loads, loadsStarted, lastDone, chatVars, formVars,
                 mobileVars, accountVars, books>>

\* GET /v1/bible/{version}/books, answered or failed.
ServeBooks(i) ==
  /\ i \in DOMAIN bookLoads
  /\ bookLoads[i].pc = "fetch"
  /\ \E res \in {"ok", "empty", "not ok", "failed"} :
       bookLoads' = [bookLoads EXCEPT
         ![i].pc = "answered",
         ![i].res = IF res = "empty" THEN "ok" ELSE res,
         ![i].items = IF res = "ok" THEN BooksOf(bookLoads[i].version) ELSE <<>>]
  /\ UNCHANGED <<authVars, linkHandlers, cacheVars, readerVars, chatVars, formVars,
                 mobileVars, accountVars, currentVersion, books, booksError>>

\* loadBooks after its fetch: the list and the selected book are set, or the
\* error, unless the run was cancelled.
BooksDone(i) ==
  /\ i \in DOMAIN bookLoads
  /\ bookLoads[i].pc = "answered"
  /\ LET load == bookLoads[i]
     IN  IF ~applies(load)
         THEN UNCHANGED <<books, booksError, selectedBookId>>
         ELSE IF load.res = "ok"
         THEN /\ books' = load.items
              /\ selectedBookId' =
                   selectedAfter(load.client, load.atStart, selectedBookId, load.items)
              /\ booksError' = booksError
         ELSE /\ booksError' = IF load.res = "not ok" THEN "Failed to load books."
                                                      ELSE "Failed to fetch"
              /\ UNCHANGED <<books, selectedBookId>>
  /\ bookLoads' = [bookLoads EXCEPT ![i].pc = "done"]
  /\ UNCHANGED <<authVars, linkHandlers, cacheVars, chapter, chapterData, chapterError,
                 chapterNotice, chapterLoading, loads, loadsStarted, lastDone, chatVars,
                 formVars, mobileVars, accountVars, currentVersion>>

\* The book select, whose options are the books of the list.
SelectBook(b) ==
  /\ HasBook(books, b)
  /\ b # selectedBookId
  /\ selectedBookId' = b
  /\ UNCHANGED <<authVars, linkHandlers, cacheVars, chapter, chapterData, chapterError,
                 chapterNotice, chapterLoading, loads, loadsStarted, lastDone, chatVars,
                 formVars, mobileVars, accountVars, booksVars>>

\* ------------------------------------------------------------ login form

\* A server that never wants a captcha token.
loginPolicyNoCaptcha(req, srv) ==
  {[answer |-> a, srv |-> srv] : a \in {"ok", "neterr"}}
  \cup IF req.kind = "register" THEN {[answer |-> "EmailTaken", srv |-> srv]}
       ELSE IF srv.blocked THEN {[answer |-> "Blocked", srv |-> srv]}
       ELSE {[answer |-> "InvalidCredentials",
              srv |-> [failures |-> srv.failures + 1,
                       blocked |-> srv.failures + 1 = LOGIN_BLOCK_FAILURES]]}

\* What the server makes of a login or register request: the reply and its
\* own state afterwards.  A login is refused unexamined while the block
\* lasts, and without a captcha token after LOGIN_CAPTCHA_FAILURES failures;
\* otherwise the credentials are examined (and the captcha token, if one is
\* wanted).  The failure that makes LOGIN_BLOCK_FAILURES starts a block;
\* whether later ones do is left open.
loginPolicy(req, srv) ==
  LET reply(answer) == [answer |-> answer, srv |-> srv]
      failed == srv.failures + 1
  IN  IF req.kind = "register"
      THEN {reply("ok"), reply("EmailTaken"), reply("neterr")}
      ELSE {reply("neterr")} \cup
           IF srv.blocked THEN {reply("Blocked")}
           ELSE IF srv.failures >= LOGIN_CAPTCHA_FAILURES /\ req.captcha = 0
           THEN {reply("CaptchaRequired")}
           ELSE {[answer |-> "ok", srv |-> [failures |-> 0, blocked |-> FALSE]]}
                \cup {[answer |-> "InvalidCredentials",
                       srv |-> [failures |-> failed, blocked |-> b]] :
                        b \in IF failed < LOGIN_BLOCK_FAILURES THEN {FALSE}
                              ELSE IF failed = LOGIN_BLOCK_FAILURES THEN {TRUE}
                              ELSE BOOLEAN}
                \cup IF srv.failures >= LOGIN_CAPTCHA_FAILURES
                     THEN {reply("CaptchaRequired")} ELSE {}

\* The HTTP outcome of a reply.
statusOf(answer) ==
  CASE answer = "ok" -> "200"
    [] answer = "neterr" -> "neterr"
    [] OTHER -> "401"

NoReply == [answer |-> "none", message |-> ""]

\* A handler whose catch branch clears the captcha field as well.
captchaAfterCleared(answer, captcha) == 0

\* setAuthCaptcha("") in the success branch only.
captchaAfter(answer, captcha) == IF answer = "ok" THEN 0 ELSE captcha

\* The text the catch branch shows: the server's error.message or the
\* fallback text, or the message of the exception fetch threw.
authErrorOf(req, reply) ==
  CASE reply.answer = "ok" -> ""
    [] reply.answer = "neterr" -> "Failed to fetch"
    [] reply.message # "" -> reply.message
    [] req.kind = "register" -> "Sign-up failed."
    [] OTHER -> "Login failed."

\* The captcha field of the login form.
TypeCaptcha(c) ==
  /\ ClientReady
  /\ c # authCaptcha
  /\ authCaptcha' = c
  /\ UNCHANGED <<authVars, linkHandlers, cacheVars, readerVars, chatVars, authError,
                 authLoading, loginSent, loginReply, srvLogin, mobileVars,
                 accountVars, booksVars>>

\* handleLogin / handleRegister up to `await fetch`: the buttons are
\* disabled while authLoading; only the login request carries the captcha
\* token, and only a non-empty one.
handleLogin(kind) ==
  /\ ~authLoading
  /\ StartLogin(kind)
  /\ authError' = ""
  /\ authLoading' = TRUE
  /\ loginSent' = [kind |-> kind, captcha |-> IF kind = "login" THEN authCaptcha ELSE 0]
  /\ loginReply' = NoReply
  /\ UNCHANGED <<authCaptcha, srvLogin, mobileVars>>

\* POST /v1/auth/login / register at the server, under its login policy.
ServeLoginPolicy ==
  /\ ServeLogin
  /\ \E r \in loginPolicy(loginSent, srvLogin), withMessage \in BOOLEAN :
       /\ authOp'.status = statusOf(r.answer)
       /\ srvLogin' = r.srv
       /\ loginReply' = [answer |-> r.answer,
                         message |-> IF withMessage /\ r.answer \notin {"ok", "neterr"}
                                     THEN r.answer ELSE ""]
  /\ UNCHANGED <<authCaptcha, authError, authLoading, loginSent, mobileVars>>

\* handleLogin / handleRegister after the response: try, catch and finally.
handleLoginDone ==
  /\ LoginDone
  /\ authCaptcha' = captchaAfter(loginReply.answer, authCaptcha)
  /\ authError' = authErrorOf(loginSent, loginReply)
  /\ authLoading' = FALSE
  /\ UNCHANGED <<loginSent, loginReply, srvLogin, mobileVars>>

\* The 30 seconds of a block have passed.
BlockElapses ==
  /\ srvLogin.blocked
  /\ srvLogin' = [srvLogin EXCEPT !.blocked = FALSE]
  /\ UNCHANGED <<authVars, linkHandlers, cacheVars, readerVars, chatVars, authCaptcha,
                 authError, authLoading, loginSent, loginReply, mobileVars,
                 accountVars, booksVars>>

FormIdle ==
  /\ authCaptcha = 0
  /\ authError = ""
  /\ authLoading = FALSE
  /\ loginSent = [kind |-> "none", captcha |-> 0]
  /\ loginReply = NoReply
  /\ srvLogin = [failures |-> 0, blocked |-> FALSE]

\* --------------------------------------------- start-up restore (mobile)

\* The keys restoreState reads before the credentials and the credential
\* keys, in the order it awaits them.
RestoreKeys == <<"reader", "tab", "token", "refresh", "user", "email">>

AuthKeys == {"token", "refresh", "user", "email"}

NotRestoring == [pc |-> 0, persisted |-> NoCred]

getItem(key) == [op |-> "getItem", key |-> key, value |-> 0]

\* if (value) setItem(key, value) else removeItem(key)
putItem(key, value) == [op |-> "putItem", key |-> key, value |-> value]

\* A persistence effect that leaves the keys of empty fields alone.
persistOpsSetOnly(cur) ==
  SelectSeq(<<putItem("token", cur.token), putItem("refresh", cur.refresh),
              putItem("user", cur.user), putItem("email", cur.email)>>,
            LAMBDA o : o.value # 0)

\* The four operations the credential persistence effect issues for the
\* state of the render it runs in.
persistOps(cur) ==
  <<putItem("token", cur.token), putItem("refresh", cur.refresh),
    putItem("user", cur.user), putItem("email", cur.email)>>

\* The app is launched: every useState starts empty, the restore effect
\* calls restoreState, which runs up to its first getItem, and the
\* persistence effect of the first render issues its operations.
MobileLaunch ==
  /\ authOp.pc = "idle"
  /\ asyncQueue = <<>>
  /\ ~persistPending
  /\ authToken' = 0 /\ authRefreshToken' = 0 /\ authUserId' = 0 /\ authEmail' = 0
  /\ restore' = [pc |-> 1, persisted |-> lsAuth]
  /\ asyncQueue' = <<getItem(RestoreKeys[1])>> \o persistOps(NoCred)
  /\ UNCHANGED <<storeVars, procVars, srvVars, histVars, linkHandlers, cacheVars,
                 readerVars, chatVars, formVars, chapterText, chapterRead,
                 accountVars, booksVars>>

\* AsyncStorage carries out the operation issued first.  A getItem resumes
\* restoreState: a non-empty credential value is set into the state, and the
\* next getItem is issued.
ServeStorage ==
  /\ asyncQueue # <<>>
  /\ ~persistPending
  /\ LET o == Head(asyncQueue)
         got == IF o.key \in AuthKeys THEN lsAuth[o.key] ELSE 0
         next == restore.pc + 1
     IN  IF o.op = "putItem"
         THEN /\ lsAuth' = [lsAuth EXCEPT ![o.key] = o.value]
              /\ asyncQueue' = Tail(asyncQueue)
              /\ UNCHANGED <<credVars, persistPending, restore>>
         ELSE /\ SetCred(IF got # 0 THEN [Cred EXCEPT ![o.key] = got] ELSE Cred)
              /\ restore' = [restore EXCEPT !.pc = IF next > Len(RestoreKeys) THEN 0 ELSE next]
              /\ asyncQueue' = IF next > Len(RestoreKeys) THEN Tail(asyncQueue)
                                ELSE Append(Tail(asyncQueue), getItem(RestoreKeys[next]))
              /\ UNCHANGED lsAuth
  /\ UNCHANGED <<lsPkce, procVars, srvVars, histVars, linkHandlers, cacheVars,
                 readerVars, chatVars, formVars, chapterText, chapterRead,
                 accountVars, booksVars>>

\* The credential persistence effect of the mobile client, run after a
\* render in which one of the four fields changed.
MobilePersistEffect ==
  /\ persistPending
  /\ persistPending' = FALSE
  /\ asyncQueue' = asyncQueue \o persistOps(Cred)
  /\ UNCHANGED <<credVars, lsAuth, lsPkce, procVars, srvVars, histVars, linkHandlers,
                 cacheVars, readerVars, chatVars, formVars, restore,
                 chapterText, chapterRead, accountVars, booksVars>>

\* No loadChapter has run: the client, the chapter_count of selectedBook
\* (0 while the book list has not arrived), and the chapter number of the
\* cache key and of the request of the last loadChapter.
NoRead(client, count) ==
  [client |-> client, count |-> count, loaded |-> FALSE,
   max |-> 0, key |-> 0, request |-> 0]

StorageIdle ==
  /\ restore = NotRestoring
  /\ asyncQueue = <<>>

MobileIdle ==
  /\ StorageIdle
  /\ chapterText = <<"1">>
  /\ chapterRead = NoRead("current", 0)

AccountIdle == bookmarks = 0 /\ memos = 0 /\ listsFor = 0

BooksIdle ==
  /\ currentVersion = versionId
  /\ books = <<>>
  /\ booksError = ""
  /\ bookLoads = <<>>

UiIdle == ReaderIdle /\ ChatIdle /\ FormIdle /\ MobileIdle /\ AccountIdle /\ BooksIdle

\* ------------------------------------------------------- session: the whole

Reload == Mount(NoQuery)

AuthInit(slots, links) ==
  /\ authToken = 0 /\ authRefreshToken = 0 /\ authUserId = 0 /\ authEmail = 0
  /\ oauthError = "none"
  /\ lsAuth = NoCred
  /\ lsPkce = [s \in OAuthStates \cup {BogusState} |-> 0]
  /\ persistPending = FALSE
  /\ page = "loaded"
  /\ calls = [c \in slots |-> IdleCall]
  /\ authOp = IdleOp
  /\ oauth = IdleOauth
  /\ srvValidAccess = {} /\ srvValidRefresh = {}
  /\ srvNextTok = 1
  /\ srvChallenge = [s \in OAuthStates |-> 0]
  /\ srvNextState = 1
  /\ exchanged = {}
  /\ callbacks = {}
  /\ exchanges = [s \in OAuthStates \cup {BogusState} |-> 0]
  /\ linkHandlers = [h \in links |-> IdleLink]

CacheEmpty == CacheLeft(0)

\* Authorised calls of the signed-in client, up to NumCalls at once, with
\* password login, logout, token expiry and page reloads.
InitAuth == AuthInit(CallIds, {}) /\ CacheEmpty /\ UiIdle

NextAuth ==
  \/ \E c \in CallIds, kind \in {"single", "mutate"} : StartCall(c, kind)
  \/ \E c \in CallIds : ServeRequest(c)
  \/ \E c \in CallIds : ClientResponse(c)
  \/ \E c \in CallIds : ServeRefresh(c)
  \/ \E c \in CallIds : ClientRefreshResponse(c)
  \/ \E a \in 1..MaxTok : ExpireAccess(a)
  \/ \E r \in 1..MaxTok : ExpireRefresh(r)
  \/ \E kind \in {"login", "register"} : StartLogin(kind) /\ UNCHANGED <<formVars, mobileVars>>
  \/ ServeLogin /\ UNCHANGED <<formVars, mobileVars>>
  \/ LoginDone /\ UNCHANGED <<formVars, mobileVars>>
  \/ StartLogout
  \/ ServeLogout
  \/ LogoutDone
  \/ \E e \in {1} : TypeEmail(e)
  \/ PersistEffect
  \/ Reload

SpecAuth == InitAuth /\ [][NextAuth]_vars

\* The whole session life cycle: every way the credential pair is created,
\* rotated and destroyed (login, register, OAuth exchange, refresh, logout,
\* start-up restore), with one authorised call of one request at a time.
InitSession == AuthInit({1}, {}) /\ CacheEmpty /\ UiIdle

NextSession ==
  \/ StartCall(1, "single")
  \/ ServeRequest(1)
  \/ ClientResponse(1)
  \/ ServeRefresh(1)
  \/ ClientRefreshResponse(1)
  \/ \E a \in 1..MaxTok : ExpireAccess(a)
  \/ \E r \in 1..MaxTok : ExpireRefresh(r)
  \/ \E kind \in {"login", "register"} : StartLogin(kind) /\ UNCHANGED <<formVars, mobileVars>>
  \/ ServeLogin /\ UNCHANGED <<formVars, mobileVars>>
  \/ LoginDone /\ UNCHANGED <<formVars, mobileVars>>
  \/ StartLogout
  \/ ServeLogout
  \/ LogoutDone
  \/ \E e \in {1} : TypeEmail(e)
  \/ PersistEffect
  \/ StartGoogleOauth
  \/ ServeOauthStart
  \/ OauthStartDone
  \/ \E q \in Queries : Mount(q)
  \/ ServeExchange
  \/ ExchangeDone

SpecSession == InitSession /\ [][NextSession]_vars

\* The OAuth sign-in alone: start, redirect callbacks (genuine, repeated or
\* forged), exchange, and logout between handshakes.
InitOAuth == AuthInit({}, {}) /\ CacheEmpty /\ UiIdle

NextOAuth ==
  \/ StartGoogleOauth
  \/ ServeOauthStart
  \/ OauthStartDone
  \/ \E q \in Queries : Mount(q)
  \/ ServeExchange
  \/ ExchangeDone
  \/ StartLogout
  \/ ServeLogout
  \/ LogoutDone
  \/ PersistEffect

SpecOAuth == InitOAuth /\ [][NextOAuth]_vars

\* The OAuth sign-in of the mobile client, with up to NumDeliveries
\* invocations of handleOauthUrl in progress at once.
InitMobileOAuth == AuthInit({}, 1..NumDeliveries) /\ CacheEmpty /\ UiIdle

NextMobileOAuth ==
  \/ StartGoogleOauth
  \/ ServeOauthStart
  \/ MobileOauthStartDone
  \/ \E h \in 1..NumDeliveries, q \in Queries : handleOauthUrl(h, q)
  \/ \E h \in 1..NumDeliveries : StorageGetItem(h)
  \/ \E h \in 1..NumDeliveries : StorageRemoveItem(h)
  \/ \E h \in 1..NumDeliveries : ServeLinkExchange(h)
  \/ \E h \in 1..NumDeliveries : LinkExchangeDone(h)

SpecMobileOAuth == InitMobileOAuth /\ [][NextMobileOAuth]_vars

InitCache ==
  /\ AuthInit({}, {})
  /\ \E n \in {0, MAX_CACHE_CHAPTERS - 1, MAX_CACHE_CHAPTERS} : CacheLeft(n)
  /\ UiIdle

NextCache ==
  \/ \E key \in HotKeys \cup FreshKeys : CacheGet(key)
  \/ \E key \in HotKeys \cup FreshKeys, now \in Stamps :
       \E payload \in Payloads(key) :
       CachePut(key, payload, now)

SpecCache == InitCache /\ [][NextCache]_vars

\* The cache functions over a storage whose records can be damaged.
NextCorrupt ==
  \/ NextCache
  \/ \E key \in HotKeys : StorageCorrupted(key)

SpecCorrupt == InitCache /\ [][NextCorrupt]_vars

\* The reader on a first visit: "Read chapter", jumps to bookmarks, the chapter
\* input, and the answers to the requests.
InitReader == AuthInit({}, {}) /\ CacheEmpty /\ UiIdle

NextReader ==
  \/ \E l \in LoadIds : loadsStarted < MaxLoads /\ loadChapter(l, NoOverride)
  \/ \E l \in LoadIds, item \in Targets : loadsStarted < MaxLoads /\ loadChapter(l, item)
  \/ \E l \in LoadIds : ServeChapter(l)
  \/ \E l \in LoadIds : LoadDone(l)
  \/ \E t \in Targets : SelectChapter(t.chapter)

SpecReader == InitReader /\ [][NextReader]_vars

\* The reader with local storage that can refuse a write.
NextFull ==
  \/ NextReader
  \/ \E l \in LoadIds : LoadDoneWriteFails(l)

SpecFull == InitReader /\ [][NextFull]_vars

\* Reading through the version from an empty cache: the chapters are loaded
\* one after the other, each one once, and every request succeeds.
ScanItem(i) == [bookId |-> KeyAt(i)[3], chapter |-> KeyAt(i)[4]]

ScanLoad ==
  /\ loadsStarted < MAX_CACHE_CHAPTERS + NumFreshKeys
  /\ loadChapter(1, ScanItem(loadsStarted + 1))

ScanServe ==
  /\ ServeChapter(1)
  /\ loads'[1].res = "ok"
  /\ loads'[1].data = ChapterData(cacheKey(versionId, loads[1].bookId, loads[1].chapter), 0)

ScanDone == LoadDone(1)

InitScan == AuthInit({}, {}) /\ CacheEmpty /\ UiIdle

NextScan == ScanLoad \/ ScanServe \/ ScanDone

SpecScan == InitScan /\ [][NextScan]_vars

\* A chat: messages, their answers, and conversation resets.
InitChat == AuthInit({}, {}) /\ CacheEmpty /\ UiIdle

NextChat ==
  \/ /\ Len(chatLog) < MaxChatResponses
     /\ Len(chatMessages) < MaxTranscript
     /\ conversationId = 0 => srvChat.created < MaxConversations
     /\ sendMessage
  \/ ServeConversation
  \/ ConversationDone
  \/ ServeMessage
  \/ MessageDone
  \/ \E site \in {"sign out", "storage"} : ChatReset(site)

SpecChat == InitChat /\ [][NextChat]_vars

\* The login form against the server's login policy: attempts with and
\* without a captcha token, the block running out, sign-ups in between.
InitLogin == AuthInit({}, {}) /\ CacheEmpty /\ UiIdle

NextLogin ==
  \/ \E e \in {1} : TypeEmail(e)
  \/ \E c \in {0, 1} : TypeCaptcha(c)
  \/ \E kind \in {"login", "register"} :
       srvLogin.failures < MaxLoginFailures /\ handleLogin(kind)
  \/ ServeLoginPolicy
  \/ handleLoginDone
  \/ BlockElapses
  \/ PersistEffect

SpecLogin == InitLogin /\ [][NextLogin]_vars

\* The mobile client over launches, from a first launch that found nothing
\* to restore: sign-in, the persistence effect and AsyncStorage, the app
\* closed and launched again.
InitRestore == AuthInit({}, {}) /\ CacheEmpty /\ UiIdle

NextRestore ==
  \/ MobileLaunch
  \/ ServeStorage
  \/ MobilePersistEffect
  \/ \E e \in {1} : TypeEmail(e)
  \/ restore.pc = 0 /\ handleLogin("login")
  \/ ServeLoginPolicy
  \/ handleLoginDone

SpecRestore == InitRestore /\ [][NextRestore]_vars

\* An anonymous visitor who chats and then signs in with the account form.
\* The effect on authToken resets the chat only when authToken is empty, so
\* a sign-in runs none of the chat setters; once signed in, switching the
\* chat storage off restarts the conversation.
InitGuest == AuthInit({}, {}) /\ CacheEmpty /\ UiIdle

ProgramGuest ==
  \/ ServeConversation
  \/ ConversationDone
  \/ ServeMessage
  \/ MessageDone
  \/ ServeLoginPolicy
  \/ handleLoginDone
  \/ PersistEffect

NextGuest ==
  \/ /\ Len(chatLog) < MaxGuestResponses
     /\ Len(chatMessages) < MaxTranscript
     /\ conversationId = 0 => srvChat.created < MaxConversations
     /\ sendMessage
  \/ ServeConversation
  \/ ConversationDone
  \/ ServeMessage
  \/ MessageDone
  \/ \E e \in {1} : TypeEmail(e)
  \/ \E kind \in {"login", "register"} :
       authToken = 0 /\ srvLogin.failures < MaxGuestFailures /\ handleLogin(kind)
  \/ ServeLoginPolicy
  \/ handleLoginDone
  \/ PersistEffect
  \/ authToken # 0 /\ ChatReset("storage")

SpecGuest == InitGuest /\ [][NextGuest]_vars

\* Requests are answered and responses handled; nothing obliges the user to
\* press a button.
FairGuest == SpecGuest /\ WF_vars(ProgramGuest)

\* The signed-in reader: the list effect and its two loads, token expiry,
\* refresh, password login and logout.
InitLists == AuthInit(CallIds, {}) /\ CacheEmpty /\ UiIdle

NextLists ==
  \/ listEffect
  \/ \E c \in CallIds : ServeRequest(c)
  \/ \E c \in CallIds : ClientResponse(c)
  \/ \E c \in CallIds : ServeRefresh(c)
  \/ \E c \in CallIds : ClientRefreshResponse(c)
  \/ \E a \in 1..MaxTok : ExpireAccess(a)
  \/ StartLogin("login") /\ UNCHANGED <<formVars, mobileVars>>
  \/ ServeLogin /\ UNCHANGED <<formVars, mobileVars>>
  \/ LoginDone /\ UNCHANGED <<formVars, mobileVars>>
  \/ StartLogout
  \/ ServeLogout
  \/ LogoutDone
  \/ \E e \in {1} : TypeEmail(e)
  \/ PersistEffect

SpecLists == InitLists /\ [][NextLists]_vars

\* The book list over version changes, from the mount of either client:
\* the effect has run once, for the version the client starts with.
InitBooks ==
  /\ AuthInit({}, {}) /\ CacheEmpty
  /\ ReaderIdle /\ ChatIdle /\ FormIdle /\ MobileIdle /\ AccountIdle
  /\ currentVersion = versionId
  /\ books = <<>>
  /\ booksError = ""
  /\ \E client \in {"web", "mobile"} :
       bookLoads = <<NewBookLoad(client, versionId, 1)>>

NextBooks ==
  \/ \E v \in Versions : Len(bookLoads) < MaxBookLoads /\ SelectVersion(v)
  \/ \E i \in 1..MaxBookLoads : ServeBooks(i)
  \/ \E i \in 1..MaxBookLoads : BooksDone(i)
  \/ \E b \in 1..3 : SelectBook(b)

SpecBooks == InitBooks /\ [][NextBooks]_vars

\* ------------------------------------------------------------ properties

InFlightRefreshes == {c \in DOMAIN calls : calls[c].pc \in {"refreshReq", "refreshResp"}}

\* C1 (stated as the specification has it): concurrent refreshes are
\* de-duplicated, so in no reachable state are two refresh requests in flight.
C1_OneRefreshInFlight == Cardinality(InFlightRefreshes) <= 1

\* C2 (stated as the specification has it): a successful refresh replaces the
\* refresh token it exchanged in the same step, and no refresh request issued
\* afterwards carries a refresh token that a successful refresh has exchanged.
C2_RefreshTokenSingleUse ==
  [][\A c \in DOMAIN calls :
       /\ (ClientRefreshResponse(c) /\ calls[c].status = "200")
            => (authRefreshToken' # calls[c].capRef /\ calls[c].capRef \in exchanged')
       /\ (calls[c].pc # "refreshReq" /\ calls'[c].pc = "refreshReq")
            => calls'[c].capRef \notin exchanged]_vars

\* C3: an authorised call sends its request at most twice; the second send
\* happens only after a first 401 with a refresh token in the closure and one
\* successful refresh; the response to the second send goes to the caller as it
\* is (its status, or the transport error), with no refresh and no retry.
C3_RetryOnce ==
  /\ [](\A c \in DOMAIN calls :
          /\ calls[c].sends <= 2
          /\ calls[c].refreshes <= 1
          /\ calls[c].pc \in {"req2", "resp2"}
               => /\ calls[c].sends = 2
                  /\ calls[c].refreshes = 1
                  /\ calls[c].res = "401"
                  /\ calls[c].capRef # 0
                  /\ calls[c].tok # 0
          /\ calls[c].sends = 2 => calls[c].refreshes = 1)
  /\ [][\A c \in DOMAIN calls :
          (ClientResponse(c) /\ calls[c].pc = "resp2")
            => \/ /\ calls'[c].pc = "idle"
                  /\ calls'[c].sends = 2
                  /\ calls'[c].result =
                       (IF calls[c].status = "neterr" THEN "threw" ELSE calls[c].status)
               \/ /\ calls[c].status = "200"
                  /\ calls[c].kind = "mutate"
                  /\ calls'[c].stage = calls[c].stage + 1
                  /\ calls'[c].pc = "req1"]_vars

\* C3 witness: a call that was retried after a refresh got 401 again and
\* returned it.
C3_Witness ==
  \E c \in DOMAIN calls :
    calls[c].pc = "idle" /\ calls[c].sends = 2 /\ calls[c].result = "401"

\* C4: when the refresh of a call fails (a non-OK response or a transport
\* error) the four credential fields are cleared in that step, the call makes
\* no further refresh or request, and its caller gets the original 401.
C4_RefreshFailureClears ==
  [][\A c \in DOMAIN calls :
       (ClientRefreshResponse(c) /\ calls[c].status # "200")
         => /\ Cred' = NoCred
            /\ calls'[c].pc = "idle"
            /\ calls'[c].result = "401"
            /\ calls'[c].sends = 1
            /\ calls'[c].refreshes = 1]_vars

\* C4 witness: a call whose single refresh failed has returned its 401 and the
\* client holds no credential.
C4_Witness ==
  \E c \in DOMAIN calls :
    /\ calls[c].pc = "idle" /\ calls[c].result = "401"
    /\ calls[c].sends = 1 /\ calls[c].refreshes = 1
    /\ Cred = NoCred


\* C5: in every reachable state an empty access token comes with an empty
\* refresh token, in memory and, once the persistence effect has run, in
\* localStorage.
C5_TokensClearedTogether ==
  /\ authToken = 0 => authRefreshToken = 0
  /\ ~persistPending => (lsAuth.token = 0 => lsAuth.refresh = 0)

\* C5 witness: after two sessions and a token rotation the client is signed
\* out and storage is in step with memory.
C5_Witness ==
  /\ authToken = 0 /\ authRefreshToken = 0
  /\ ~persistPending /\ lsAuth.token = 0 /\ lsAuth.refresh = 0
  /\ srvNextTok > MaxTok
  /\ exchanged # {}

\* handleLogout has run to its end in this step: with the response of the
\* logout request, or at once when there was no refresh token to revoke.
LogoutEnds == LogoutDone \/ (StartLogout /\ authRefreshToken = 0)

\* C6 (stated as the specification has it): every logout of a signed-in
\* session, whatever became of the logout request, leaves access token,
\* refresh token, user id and e-mail empty (the persistence effect then
\* removes them from storage).
C6_LogoutDestroysPair == [][LogoutEnds => Cred' = NoCred]_vars

\* C7 (stated as the specification has it): the session becomes signed in only
\* by a successful login, register or OAuth exchange or by a page load
\* restoring the stored pair; it becomes signed out only by logout or a failed
\* refresh; a successful refresh keeps it signed in; a failed login, register
\* or exchange leaves the four credential fields as they were.
C7_SessionStateMachine ==
  [][/\ (~SignedIn /\ SignedIn')
          => \/ LoginDone /\ authOp.status = "200"
             \/ ExchangeDone /\ oauth.status = "200"
             \/ \E q \in Queries : Mount(q)
     /\ (SignedIn /\ ~SignedIn')
          => \/ LogoutEnds
             \/ \E c \in DOMAIN calls : ClientRefreshResponse(c) /\ calls[c].status # "200"
     /\ (SignedIn /\ \E c \in DOMAIN calls : ClientRefreshResponse(c) /\ calls[c].status = "200")
          => SignedIn'
     /\ (LoginDone /\ authOp.status # "200") => Cred' = Cred
     /\ (ExchangeDone /\ oauth.status # "200") => Cred' = Cred]_vars


\* C8 (stated as the specification has it): of the redirect callbacks handled
\* for one state only the first finds the verifier and posts an exchange, every
\* later one fails with the state-mismatch error, so the verifier of a state
\* goes into at most one exchange request; and once a callback has been
\* handled for a state no verifier is stored under it, whatever becomes of the
\* exchange.
C8_PkceOneShot ==
  /\ \A s \in DOMAIN exchanges : exchanges[s] <= 1
  /\ \A s \in callbacks : lsPkce[s] = 0

\* C9: the callback posts an exchange only when it found a verifier under the
\* callback's state, and the request carries that verifier with the callback's
\* code and state; a complete callback that finds no verifier ends with the
\* state-mismatch error, posts nothing and leaves the four credential fields
\* as they were; a failed exchange leaves them as they were too.
C9_ExchangeBoundToVerifier ==
  [][/\ \A q \in Queries :
          Mount(q) =>
            /\ oauth'.pc = "exchangeReq"
                 => /\ q.state # 0 /\ q.code # 0
                    /\ lsPkce[q.state] # 0
                    /\ oauth'.verifier = lsPkce[q.state]
                    /\ oauth'.state = q.state
                    /\ oauth'.code = q.code
            /\ (q.code # 0 /\ q.state # 0 /\ ~q.error /\ lsPkce[q.state] = 0)
                 => /\ oauthError' = "state_mismatch"
                    /\ oauth'.pc = "idle"
                    /\ Cred' = Cred
     /\ oauth'.pc = "exchangeReq" => (oauth.pc = "exchangeReq" \/ \E q \in Queries : Mount(q))
     /\ (ExchangeDone /\ oauth.status # "200")
          => (Cred' = Cred /\ oauthError' = "exchange_failed")]_vars

\* C9 witness: the callback of a handshake was exchanged, and a second
\* callback for the same state was refused with the state-mismatch error.
C9_Witness ==
  /\ oauthError = "state_mismatch"
  /\ oauth.pc = "idle"
  /\ \E s \in OAuthStates : exchanges[s] = 1 /\ s \in callbacks


\* Last n elements of a sequence (all of it when it is shorter).
LastOf(seq, n) ==
  IF Len(seq) <= n THEN seq ELSE SubSeq(seq, Len(seq) - n + 1, Len(seq))

IndexKeys == {cacheIndex[i] : i \in DOMAIN cacheIndex}

\* The (versionId, bookId, chapter) a cache key was built from.
TripleOf(key) == <<key[2], key[3], key[4]>>

Content(record) == [verses |-> record.verses, content_hash |-> record.content_hash]

\* C12: in every reachable state, for every key put in this behaviour whose
\* entry is still stored, a get of the key returns the verses and the content
\* hash of the latest put of that key, with the cached_at stamp as the only
\* other field, whatever puts and gets of other keys came in between; and a
\* get that returned a record returned the content of some put or of an
\* earlier visit.
C12_RoundTrip ==
  /\ \A k \in DOMAIN lastPut :
       k \in DOMAIN cacheStore =>
         LET got == getCachedChapter(k, cacheIndex, cacheStore).value
         IN  /\ DOMAIN got = {"verses", "content_hash", "cached_at"}
             /\ Content(got) = lastPut[k]
  /\ cacheGot # Null =>
       \E i \in 1..(MAX_CACHE_CHAPTERS + NumFreshKeys), r \in Revisions :
         Content(cacheGot) = ChapterData(KeyAt(i), r)

\* C12 witness: a key cached at an earlier visit was overwritten by a put,
\* another key was put after it, and then a get returned the overwritten
\* key's new record.
C12_Witness ==
  /\ KeyAt(1) \in DOMAIN lastPut
  /\ KeyAt(1) \in DOMAIN cacheStore
  /\ Len(recency) > 1
  /\ recency[Len(recency)] = KeyAt(1)
  /\ cacheGot # Null
  /\ Content(cacheGot) = lastPut[KeyAt(1)]
  /\ \E k \in DOMAIN lastPut : k # KeyAt(1)


\* The load in slot l handles the answer to its request in this step.
Handles(l) == loads[l].pc = "answered" /\ loads'[l].pc = "idle"

\* The cache key of the chapter the load in slot l asked for.
KeyOf(l) == cacheKey(versionId, loads[l].bookId, loads[l].chapter)

\* C13: when a chapter fetch succeeds, the chapter on display becomes the
\* fetched content and so does the cache entry of the requested key; if the
\* entry the fetch found in the cache has another hash than the fetched
\* content, that fetch sets the "updated" notice, once; if the hashes are
\* equal (or nothing was cached) the fetch sets no notice.
C13_HashCheckedRefresh ==
  [][\A l \in LoadIds :
       (Handles(l) /\ loads[l].res = "ok") =>
         LET cached == loads[l].cached
             data == loads[l].data
             differs == IF cached = Null THEN FALSE
                        ELSE cached.content_hash # data.content_hash
         IN  /\ chapterData' = data
             /\ KeyOf(l) \in DOMAIN cacheStore'
             /\ Content(Parse(cacheStore'[KeyOf(l)])) = data
             /\ differs => /\ chapterNotice' = "Content updated; cache refreshed."
                           /\ lastDone'.notices = 1
             /\ ~differs => /\ chapterNotice' = chapterNotice
                            /\ lastDone'.notices = 0
    ]_vars

\* C13 witness: from an empty cache chapter (krv, 1, 1) was fetched twice,
\* the second fetch returned another revision than the first, set the notice
\* once and left one cache entry, with the hash of the second revision.
C13_Witness ==
  /\ loadsStarted = 2
  /\ \A l \in LoadIds : loads[l].pc = "idle"
  /\ DOMAIN cacheStore = {cacheKey("krv", 1, 1)}
  /\ lastDone.notices = 1
  /\ lastDone.cached # Null
  /\ lastDone.cached.content_hash # lastDone.data.content_hash
  /\ Parse(cacheStore[cacheKey("krv", 1, 1)]).content_hash = lastDone.data.content_hash
  /\ chapterNotice = "Content updated; cache refreshed."
  /\ chapterData = ChapterData(cacheKey("krv", 1, 1), 1)


\* C14: when the request of a chapter fails (no answer, or an answer with a
\* non-OK status) the cache is left as it is; if the request's cache lookup
\* had found an entry for the requested key, that entry is put on display
\* with the message "Showing offline cache."; if it had found none, the
\* error is shown, the display stays as it was and no entry is created.
C14_OfflineFallback ==
  [][\A l \in LoadIds :
       (Handles(l) /\ loads[l].res # "ok") =>
         /\ cacheIndex' = cacheIndex
         /\ cacheStore' = cacheStore
         /\ IF loads[l].cached # Null
            THEN /\ chapterData' = loads[l].cached
                 /\ Content(chapterData') \in
                      {ChapterData(KeyOf(l), r) : r \in Revisions}
                 /\ chapterError' = "Showing offline cache."
            ELSE /\ chapterError' \in {"Failed to load chapter.", "Failed to fetch"}
                 /\ chapterData' = chapterData
    ]_vars

\* C14 witness: a chapter cached by an earlier fetch is on display from the
\* cache, with the offline message, after a request for it failed.
C14_Witness ==
  /\ chapterError = "Showing offline cache."
  /\ chapterData # Null
  /\ lastDone.res \in {"not ok", "failed"}
  /\ chapterData = lastDone.cached
  /\ cacheKey(versionId, lastDone.bookId, lastDone.chapter) \in DOMAIN cacheStore
  /\ Parse(cacheStore[cacheKey(versionId, lastDone.bookId, lastDone.chapter)]) = chapterData

\* C15: every loadChapter call for a key that has a cache entry puts that
\* entry on display in the call itself, before the answer of the request it
\* issues.
C15_ReadThrough ==
  [][\A l \in LoadIds :
       (loads[l].pc = "idle" /\ loads'[l].pc = "fetch" /\ loads'[l].cached # Null) =>
         /\ chapterData' # Null
         /\ Content(chapterData') = Content(loads'[l].cached)
    ]_vars

\* C16: every cache entry holds content of the chapter its key names, and
\* the step in which a load handles its answer leaves the entry of every key
\* other than the one that load asked for as it was, also when the selection
\* has moved to another chapter in the meantime.
C16_CacheWriteKeyedByRequest ==
  /\ [](\A k \in DOMAIN cacheStore :
          Content(Parse(cacheStore[k])) \in {ChapterData(k, r) : r \in Revisions})
  /\ [][\A l \in LoadIds :
          Handles(l) =>
            \A k \in DOMAIN cacheStore \cap DOMAIN cacheStore' :
              k # KeyOf(l) => cacheStore'[k] = cacheStore[k]
       ]_vars

\* C16 witness: an answer that arrived after the reader had moved on to
\* another chapter was written to the cache, under its own key, while the
\* chapter selected by then has an entry of its own.
C16_Witness ==
  /\ cacheKey(versionId, selectedBookId, chapter) \in DOMAIN cacheStore
  /\ lastDone.late
  /\ lastDone.res = "ok"
  /\ cacheKey(versionId, lastDone.bookId, lastDone.chapter)
       # cacheKey(versionId, selectedBookId, chapter)
  /\ Content(Parse(cacheStore[cacheKey(versionId, lastDone.bookId, lastDone.chapter)]))
       = lastDone.data

\* C17: the answer to a request for one chapter that is handled while a
\* later load of another chapter, the one now selected, is in progress
\* changes neither the chapter on display nor the notice nor the error.
C17_SupersededDiscarded ==
  [][\A l \in LoadIds :
       (/\ Handles(l)
        /\ \E m \in LoadIds \ {l} :
             /\ loads[m].pc # "idle"
             /\ loads[m].bookId = selectedBookId
             /\ loads[m].chapter = chapter
             /\ KeyOf(m) # KeyOf(l)) =>
         UNCHANGED <<chapterData, chapterNotice, chapterError>>
    ]_vars


\* C18: from an empty cache, once 200 distinct chapters have been fetched one
\* after the other the cache holds 200 entries and the chapter fetched first
\* is no longer among them.
C18_EvictedAfter200 ==
  (loadsStarted = MAX_CACHE_CHAPTERS /\ loads[1].pc = "idle") =>
    /\ Len(cacheIndex) = MAX_CACHE_CHAPTERS
    /\ KeyAt(1) \notin DOMAIN cacheStore

\* C18, as the code has it: from an empty cache, after n distinct chapters
\* have been fetched one after the other the cache holds all of them while
\* n is at most 200, the first one included; from the 201st fetch on it
\* holds exactly the 200 fetched last, so the chapter fetched first goes with
\* the 201st fetch.
C18_EvictedAfter201 ==
  loads[1].pc = "idle" =>
    /\ Len(cacheIndex) = IF loadsStarted <= MAX_CACHE_CHAPTERS THEN loadsStarted
                         ELSE MAX_CACHE_CHAPTERS
    /\ DOMAIN cacheStore =
         {KeyAt(i) : i \in (IF loadsStarted <= MAX_CACHE_CHAPTERS THEN 1
                            ELSE loadsStarted - MAX_CACHE_CHAPTERS + 1)..loadsStarted}
    /\ KeyAt(1) \in DOMAIN cacheStore <=>
         (loadsStarted >= 1 /\ loadsStarted <= MAX_CACHE_CHAPTERS)

\* C18 witness: the 201st chapter has been fetched; the cache holds 200
\* entries, the 201st among them and the first one not.
C18_Witness ==
  /\ loadsStarted = MAX_CACHE_CHAPTERS + 1
  /\ loads[1].pc = "idle"
  /\ Len(cacheIndex) = MAX_CACHE_CHAPTERS
  /\ KeyAt(MAX_CACHE_CHAPTERS + 1) \in DOMAIN cacheStore
  /\ KeyAt(1) \notin DOMAIN cacheStore
  /\ lastDone.res = "ok"


\* isExhausted(): remainingTurns <= 0 or dailyRemaining <= 0 in the snapshot.
Exhausted(meta) ==
  \/ "remaining_turns" \in DOMAIN meta /\ meta["remaining_turns"] <= 0
  \/ "daily_remaining" \in DOMAIN meta /\ meta["daily_remaining"] <= 0

\* C19: the chat gate is closed exactly when the latest snapshot has
\* remaining_turns <= 0 or daily_remaining <= 0; so it is closed once a
\* response with remaining_turns 0 has been absorbed and open again once a
\* later response with a positive remaining_turns has been.
C19_ExhaustionGate == chatLimitReached <=> Exhausted(chatMeta)

\* The values (none or one) the most recent response of a log reported for a
\* field.
RECURSIVE LastReport(_, _)
LastReport(log, f) ==
  IF log = <<>> THEN {}
  ELSE IF f \in DOMAIN log[Len(log)].report THEN {log[Len(log)].report[f]}
  ELSE LastReport(SubSeq(log, 1, Len(log) - 1), f)

\* A log from its last conversation-create response on (all of it when it
\* has none).
RECURSIVE SinceCreate(_)
SinceCreate(log) ==
  IF log = <<>> THEN <<>>
  ELSE IF log[Len(log)].kind = "create" THEN <<log[Len(log)]>>
  ELSE LET before == SubSeq(log, 1, Len(log) - 1)
       IN  IF \E i \in DOMAIN before : before[i].kind = "create"
           THEN Append(SinceCreate(before), log[Len(log)])
           ELSE log

\* The values (none or one) the snapshot holds for a field.
Held(f) == IF f \in DOMAIN chatMeta THEN {chatMeta[f]} ELSE {}

\* A step in which the client handles a chat response or resets the chat.
AbsorbsOrResets ==
  \/ chatOp.pc \in {"created", "sent"} /\ chatOp'.pc # chatOp.pc
  \/ chatMeta' = NoMeta /\ chatLog' = <<>>

Handles410 == MessageDone /\ chatOp.status = "410"

\* C21: whenever the server signals session expiry (410) or the user changes
\* the storage consent, the quota snapshot and the conversation identity are
\* both cleared.
C21_SessionReset ==
  [][Handles410 \/ ChatReset("storage") => chatMeta' = NoMeta /\ conversationId' = 0]_vars


\* C22: when a message is answered 410 the conversation handle is discarded,
\* the error is shown and no request is left in flight (the message is not
\* sent again); and no message request is ever sent on a handle that has
\* been answered 410, so the next send goes through a new conversation.
C22_SessionExpiredRecovery ==
  /\ [](chatOp.pc = "send" => chatOp.cid \notin srvChat.expired)
  /\ [](chatOp.pc = "idle" => conversationId \notin srvChat.expired)
  /\ [][Handles410 =>
          /\ conversationId' = 0
          /\ chatError' = "Session expired."
          /\ chatOp'.pc = "idle" /\ ~chatLoading']_vars

\* C22 witness: a conversation was answered 410, the next send created
\* another one, and its message request is in flight on the new handle.
C22_Witness ==
  /\ srvChat.expired = {1}
  /\ chatOp.pc = "send"
  /\ chatOp.cid = 2
  /\ conversationId = 2


\* C23: every 429 answer to a message closes the chat gate, with the reason
\* "daily" exactly when the body parses and its error message is the
\* daily-limit text, and "trial" for every other text and for a missing or
\* unparsable body.
C23_QuotaExceededClassification ==
  [][MessageDone /\ chatOp.status = "429" =>
       /\ chatLimitReached'
       /\ chatLimitReason' =
            IF chatOp.body.parses /\ chatOp.body.message = "daily trial limit reached"
            THEN "daily" ELSE "trial"]_vars

\* C23 witness: a 429 with the daily-limit text has been handled.
C23_Witness ==
  /\ chatOp.pc = "idle"
  /\ chatLimitReached
  /\ chatLimitReason = "daily"
  /\ chatError = "Daily limit reached for today."


\* A step in which handleLogin or handleRegister handles a failed request.
HandlesAuthFailure == handleLoginDone /\ loginReply.answer # "ok"

\* C24: a login or register invocation issues one request and never sends
\* it again; when it fails a non-empty error is shown, the loading flag is
\* cleared and the captcha field keeps its value; and a login request
\* carries the captcha token the field holds when the button is pressed.
C24_AuthErrorsSurfaced ==
  /\ [][HandlesAuthFailure =>
          /\ authError' # ""
          /\ ~authLoading'
          /\ authCaptcha' = authCaptcha
          /\ authOp'.pc = "idle"]_vars
  /\ [][authOp.pc = "idle" /\ authOp'.pc = "req" =>
          /\ loginSent'.kind \in {"login", "register"}
          /\ loginSent'.kind = "login" => loginSent'.captcha = authCaptcha]_vars
  /\ [][authOp'.pc = "req" /\ authOp.pc # "req" => authOp.pc = "idle"]_vars

\* C24 witness: a login without a captcha token was refused with
\* CaptchaRequired, the user entered a token, another login failed with the
\* token kept, and the login after that is in flight with the same token.
C24_Witness ==
  /\ srvLogin.failures > LOGIN_CAPTCHA_FAILURES
  /\ authOp.pc = "req"
  /\ loginSent = [kind |-> "login", captcha |-> 1]
  /\ authCaptcha = 1
  /\ authLoading


\* A step in which the server answers a login request (the transport did
\* not fail).
AnswersLogin ==
  ServeLoginPolicy /\ loginSent.kind = "login" /\ loginReply'.answer # "neterr"

\* The credentials of the request were examined.
Examined(answer) == answer \in {"ok", "InvalidCredentials"}

C26_CorruptRecordDropped ==
  [][\A key \in HotKeys :
       CacheGet(key) /\ key \in DOMAIN cacheStore /\ ~Parses(cacheStore[key])
         => /\ cacheGot' = Null
            /\ key \notin DOMAIN cacheStore'
            /\ key \notin IndexKeys']_vars


\* C27: when startGoogleOauth sends the browser to the authorization URL
\* the verifier is already stored, under the state the server returned and
\* with the server holding the challenge of that verifier for that state;
\* and when the start request fails or its answer lacks the state or the
\* authorization URL, nothing is stored and the browser stays.
C27_StartOAuthOrdering ==
  [][OauthStartDone =>
       /\ page' = "away"
            => /\ oauth.status = "200"
               /\ lsPkce'[oauth.state] = oauth.verifier
               /\ srvChallenge[oauth.state] = buildCodeChallenge(lsPkce'[oauth.state])
               /\ \A s \in DOMAIN lsPkce \ {oauth.state} : lsPkce'[s] = lsPkce[s]
       /\ oauth.status # "200"
            => lsPkce' = lsPkce /\ page' = page /\ oauthError' = "start_failed"]_vars

\* C27 witness: the start request was answered, the verifier is stored
\* under the returned state and the browser has left for the authorization
\* URL.
C27_Witness ==
  /\ page = "away"
  /\ oauth.pc = "idle"
  /\ \E s \in OAuthStates :
       lsPkce[s] # 0 /\ srvChallenge[s] = buildCodeChallenge(lsPkce[s])


\* The place of a key among the reads of restoreState.
ReadAt(key) == CHOOSE i \in DOMAIN RestoreKeys : RestoreKeys[i] = key

\* restoreState has read key (it is past that getItem, or has finished).
HasRead(key) == restore.pc = 0 \/ restore.pc > ReadAt(key)

\* C28: when a launch finds an access / refresh token pair an earlier run
\* persisted, the persisted pair is still in storage when restoreState reads
\* it, whatever the mount-time persistence effect does meanwhile, and
\* restoreState ends with those tokens in memory.
C28_RestoreRace ==
  (restore.persisted.token # 0 /\ restore.persisted.refresh # 0) =>
    /\ ~HasRead("token") => lsAuth.token = restore.persisted.token
    /\ ~HasRead("refresh") => lsAuth.refresh = restore.persisted.refresh
    /\ (restore.pc = 0 /\ authOp.pc = "idle")
         => authToken # 0 /\ authRefreshToken # 0


\* C29: once a refresh has succeeded, the pair the client holds (one that
\* has not itself been exchanged) is cleared only by a logout or by the
\* failure of a refresh request that presented the refresh token of that
\* pair; the failure of a refresh request built from a token captured before
\* the rotation clears nothing.
C29_NoSpuriousSignOut ==
  [][(exchanged # {} /\ authRefreshToken # 0 /\ authRefreshToken \notin exchanged
        /\ authRefreshToken' = 0)
       => \/ LogoutEnds
          \/ \E c \in DOMAIN calls :
               ClientRefreshResponse(c) /\ calls[c].capRef = authRefreshToken]_vars


\* The account form's request has been answered with a session while the
\* chat gate, closed by a 429 of the anonymous session, is still closed.
SignInAnswered ==
  /\ authToken = 0
  /\ authOp.kind = "signin" /\ authOp.pc = "resp" /\ authOp.status = "200"
  /\ chatLimitReached

\* C30: sign-in lifts an anonymous quota block: once a login or register
\* succeeds while a 429 of the anonymous session keeps the chat gate closed,
\* a state follows in which the limit flag is clear and no conversation is
\* held, so that the next sendMessage issues a request for a new one.
C30_SignInLiftsBlock == SignInAnswered ~> (~chatLimitReached /\ conversationId = 0)


\* C31: the exhaustion gate.  While chatLimitReached is set no step issues a
\* conversation-create or message request or appends to the transcript, and
\* the flag is cleared only by a successful conversation create, a 410
\* answer, or a reset (storage setting changed, access token gone).
C31_GateHolds ==
  [][chatLimitReached =>
       /\ chatOp'.pc \notin {"create", "send"}
       /\ Len(chatMessages') <= Len(chatMessages)
       /\ ~chatLimitReached' =>
            \/ ConversationDone /\ chatOp.status = "200"
            \/ MessageDone /\ chatOp.status = "410"
            \/ \E site \in {"sign out", "storage"} : ChatReset(site)]_vars

\* The gate is closed over a conversation with a transcript, and nothing is
\* in flight.
C31_Witness ==
  /\ chatLimitReached
  /\ conversationId # 0
  /\ chatOp = IdleChat
  /\ ~chatLoading
  /\ Len(chatMessages) >= 3


\* Signed out with nothing pending: no authorised call, login or logout in
\* flight and every effect flushed.
SignedOutAtRest ==
  /\ authToken = 0
  /\ \A c \in DOMAIN calls : calls[c].pc = "idle"
  /\ authOp.pc = "idle"
  /\ ~persistPending
  /\ listsFor = authToken

\* C32: no account data after sign-out.  Whenever the session is signed out
\* and nothing is pending, the bookmark and the memo list are empty; and the
\* response to a list request made while signed in that arrives once the
\* credentials are gone (logout, failed refresh) is not put into the lists.
C32_NoAccountDataSignedOut ==
  /\ [](SignedOutAtRest => bookmarks = 0 /\ memos = 0)
  /\ [][authToken = 0 => /\ bookmarks' \in {0, bookmarks}
                         /\ memos' \in {0, memos}]_vars


\* The server has exchanged the code of handshake s for a session.
Redeemed(s) == s < srvNextState /\ srvChallenge[s] = 0

\* C33: the redirect URL of one handshake handled by two handleOauthUrl
\* invocations.  However their storage reads and deletes interleave, at most
\* one exchange request is posted for a state; and once the exchange of a
\* state has signed the user in, an invocation handling the same state again
\* does not put an error in its place.
C33_DuplicateDelivery ==
  /\ [](\A s \in OAuthStates : exchanges[s] <= 1)
  /\ [][\A h \in DOMAIN linkHandlers :
          (/\ StorageRemoveItem(h) \/ LinkExchangeDone(h)
           /\ linkHandlers[h].state \in OAuthStates
           /\ Redeemed(linkHandlers[h].state)
           /\ authToken # 0)
            => oauthError' = oauthError]_vars


\* C34: a cache write that fails does not mask a fresh fetch.  When the
\* fetch of a chapter succeeded and persisting it throws, the chapter on
\* display is the fetched one and the offline message is not set.
C34_WriteFailureKeepsFresh ==
  [][\A l \in LoadIds :
       LoadDoneWriteFails(l)
         => /\ chapterData' = loads[l].data
            /\ chapterError' # "Showing offline cache."]_vars


\* Every run of the loadBooks effect has come to its end.
\* ------------------------------------------------- mobile chapter bounds
\* The characters a chapter text is made of in this model, and the texts.
InputChars == {"0", "1", "9", "-", " ", "a"}

Inputs == UNION {[1..n -> InputChars] : n \in 0..MaxInputLen}

Counts == {0, 1, MaxCount}

Digits == <<"0", "1", "2", "3", "4", "5", "6", "7", "8", "9">>

IsDigit(c) == \E d \in 1..10 : Digits[d] = c

DigitValue(c) == (CHOOSE d \in 1..10 : Digits[d] = c) - 1

NaN == [nan |-> TRUE, n |-> 0]

RECURSIVE TrimStart(_)
TrimStart(text) ==
  IF text # <<>> /\ Head(text) = " " THEN TrimStart(Tail(text)) ELSE text

\* The value of the longest prefix of decimal digits, after the digits
\* already read.
RECURSIVE ParseDigits(_, _)
ParseDigits(text, acc) ==
  IF text # <<>> /\ IsDigit(Head(text))
  THEN ParseDigits(Tail(text), 10 * acc + DigitValue(Head(text)))
  ELSE acc

\* Number.parseInt(text, 10): leading white space is skipped, one sign is
\* read, then decimal digits up to the first other character; NaN when
\* there is no digit.
parseInt(text) ==
  LET t == TrimStart(text)
      signed == t # <<>> /\ Head(t) \in {"-", "+"}
      u == IF signed THEN Tail(t) ELSE t
  IN  IF u = <<>> \/ ~IsDigit(Head(u)) THEN NaN
      ELSE [nan |-> FALSE,
            n |-> IF signed /\ Head(t) = "-" THEN 0 - ParseDigits(u, 0)
                  ELSE ParseDigits(u, 0)]

\* String(n) of a positive integer.
RECURSIVE String(_)
String(n) ==
  IF n < 10 THEN <<Digits[n + 1]>> ELSE Append(String(n \div 10), Digits[(n % 10) + 1])

Max(a, b) == IF a >= b THEN a ELSE b

Min(a, b) == IF a <= b THEN a ELSE b

\* Math.max(1, Number.parseInt(text, 10) || 1)
normalizedChapter(text) ==
  LET p == parseInt(text) IN Max(1, IF p.nan \/ p.n = 0 THEN 1 ELSE p.n)

\* maxChapter ? Math.min(normalizedChapter, maxChapter) : normalizedChapter
boundedChapter(text, maxChapter) ==
  IF maxChapter # 0 THEN Min(normalizedChapter(text), maxChapter)
  ELSE normalizedChapter(text)

NoChapterOverride == [given |-> FALSE, chapter |-> 0, count |-> 0]

\* loadChapter({bookId, chapter}) of a search result: the chapter the
\* server reported and the chapter_count of the book it is in.
ChapterOverrides ==
  [given : {TRUE}, chapter : {1, 2 * MaxCount}, count : Counts]

\* The chapter text loadChapter leaves.  input is targetChapterInput; the
\* first mobile client has no override and compares the text with
\* String(normalizedChapter).
chapterAfter(client, override, input, text) ==
  LET maxChapter == IF override.given THEN override.count ELSE chapterRead.count
      bounded == boundedChapter(input, maxChapter)
  IN  IF client = "first"
      THEN IF String(normalizedChapter(input)) # text THEN String(bounded) ELSE text
      ELSE IF String(bounded) # input \/ override.given THEN String(bounded) ELSE text

\* loadChapter of the mobile client up to its fetch: the chapter number of
\* the cache key and of the request path, and setChapter.  An override
\* selects its book.  The load effect depends on chapter: when the text
\* was changed the effect runs loadChapter once more.
loadChapterMobile(override) ==
  /\ ~chapterRead.loaded
  /\ override.given => chapterRead.client = "current"
  /\ LET input == IF override.given THEN String(override.chapter) ELSE chapterText
         maxChapter == IF override.given THEN override.count ELSE chapterRead.count
         bounded == boundedChapter(input, maxChapter)
     IN  /\ chapterText' = chapterAfter(chapterRead.client, override, input, chapterText)
         /\ chapterRead' = [chapterRead EXCEPT !.count = maxChapter, !.max = maxChapter,
                                               !.key = bounded, !.request = bounded,
                                               !.loaded = (chapterText' = chapterText)]
  /\ UNCHANGED <<authVars, linkHandlers, cacheVars, readerVars, chatVars, formVars,
                 restore, asyncQueue, accountVars, booksVars>>

\* The book list arrives and selectedBook's chapter_count becomes known:
\* the clamp effect runs, and the load effect when the text changed.
clampEffect(maxChapter) ==
  /\ chapterRead.count = 0
  /\ maxChapter # 0
  /\ LET current == parseInt(chapterText)
     IN  /\ chapterText' = IF current.nan \/ current.n = 0 \/ current.n < 1 THEN String(1)
                           ELSE IF current.n > maxChapter THEN String(maxChapter)
                           ELSE chapterText
         /\ chapterRead' = [chapterRead EXCEPT !.count = maxChapter,
                                               !.loaded = @ /\ chapterText' = chapterText]
  /\ UNCHANGED <<authVars, linkHandlers, cacheVars, readerVars, chatVars, formVars,
                 restore, asyncQueue, accountVars, booksVars>>

\* A chapter text as the restore, the picker or an earlier session left
\* it, with the book list arrived or not, before the load effect runs.
InitBounds ==
  /\ AuthInit({}, {}) /\ CacheEmpty
  /\ ReaderIdle /\ ChatIdle /\ FormIdle /\ StorageIdle /\ AccountIdle /\ BooksIdle
  /\ chapterText \in Inputs
  /\ \E client \in {"first", "current"}, count \in Counts :
       chapterRead = NoRead(client, count)

NextBounds ==
  \/ \E override \in {NoChapterOverride} \cup ChapterOverrides : loadChapterMobile(override)
  \/ \E maxChapter \in Counts : clampEffect(maxChapter)

SpecBounds == InitBounds /\ [][NextBounds]_vars

\* C36: after a loadChapter of the mobile client that leaves the chapter
\* text alone or corrects it, for every chapter text, the chapter number of
\* the cache key and that of the request are the same integer, it is at
\* least 1, it is at most the target book's chapter_count when that is
\* known, and the chapter text is the text of that number.
C36_ChapterBounds ==
  [][\A override \in {NoChapterOverride} \cup ChapterOverrides :
       loadChapterMobile(override) =>
         /\ chapterRead'.key = chapterRead'.request
         /\ chapterRead'.request >= 1
         /\ chapterRead'.max # 0 => chapterRead'.request <= chapterRead'.max
         /\ chapterText' = String(chapterRead'.request)]_vars

BooksSettled == \A i \in DOMAIN bookLoads : bookLoads[i].pc = "done"

====
